---- MODULE Spec2Model ----
(***************************************************************************)
(* State-machine model of the JazzNess NES emulator core: the CPU run      *)
(* loop (cpu.rs), the Bus (bus.rs), the PPU register file and scanline     *)
(* engine (ppu.rs) and the APU frame counter (apu.rs).                     *)
(*                                                                         *)
(* The machine is one nested record `cpu`, laid out like the Rust structs  *)
(* (cpu.bus.ppu.scanline ...).  Every method of the source is an operator  *)
(* from machine records to machine records; the run loop is cut at the     *)
(* places where Bus::tick is called, so that each call of Bus::tick is one *)
(* step of the state machine.                                              *)
(***************************************************************************)
EXTENDS Integers, Naturals, Sequences, FiniteSets, TLC

\* cpu     the CPU with the Bus, PPU and APU it owns
\* at      position in CPU::run_with_callback: "poll" (loop top), "fetch"
\*         (interrupts checked, callback run, next opcode not yet fetched),
\*         "dma" (inside dma_transfer, before its tick), "tick" (match arm
\*         done, before `self.bus.tick(opcode_ref.cycles)`)
\* opcode  the loop's locals opcode_ref and pc_state of the last fetch
\* steps   number of instructions and host operations so far
\* ret     the byte returned by the last host-issued Bus read
VARIABLES cpu, at, opcode, steps, ret

vars == <<cpu, at, opcode, steps, ret>>

(***************************************************************************)
(* Bounds of the exploration (not program constants).                      *)
(***************************************************************************)
MaxInstr == 3
MaxOps == 3
MaxData == 7
MaxTicks == 4
MaxAlu == 1
MaxPad == 11
MaxSeqCycles == 74600
MaxAddrOps == 5
MaxSweepOps == 5
MaxStatusInstr == 4
IdleCycles == 29790

(***************************************************************************)
(* Bit-level helpers for u8 / u16 values.                                  *)
(***************************************************************************)
\* bit i of a
Bit(a, i) == (a \div (2 ^ i)) % 2

\* a & (2^n - 1): the low n bits of a
LowBits(a, n) == a % (2 ^ n)

\* a & (2^i | (2^n - 1)) for i >= n: bit i and the low n bits of a
BitAndLow(a, i, n) == Bit(a, i) * (2 ^ i) + LowBits(a, n)

\* bitflags `contains` / `insert` / `remove` for a single-bit flag
Contains(reg, flag) == (reg \div flag) % 2 = 1
Insert(reg, flag) == IF Contains(reg, flag) THEN reg ELSE reg + flag
Remove(reg, flag) == IF Contains(reg, flag) THEN reg - flag ELSE reg
SetTo(reg, flag, val) == IF val THEN Insert(reg, flag) ELSE Remove(reg, flag)

Hi(w) == (w \div 256) % 256
Lo(w) == w % 256
Word(hi, lo) == hi * 256 + lo

(***************************************************************************)
(* Zero-initialised arrays ([0; N]) are kept sparse: a cell that is not in *)
(* the domain holds 0.                                                     *)
(***************************************************************************)
Zeroed == [x \in {} |-> 0]
Rd(mem, a) == IF a \in DOMAIN mem THEN mem[a] ELSE 0
Wr(mem, a, v) ==
    [x \in (IF v = 0 THEN DOMAIN mem \ {a} ELSE DOMAIN mem \cup {a}) |->
        IF x = a THEN v ELSE mem[x]]

(***************************************************************************)
(* cpu.rs: status flag constants                                           *)
(***************************************************************************)
CARRY_FLAG == 1
ZERO_FLAG == 2
INTERRUPT_DISABLE == 4
DECIMAL_MODE == 8
BREAK_COMMAND == 16
BREAK_COMMAND_2 == 32
OVERFLOW_FLAG == 64
NEGATIVE_FLAG == 128

(***************************************************************************)
(* ppu.rs: register bit constants                                          *)
(***************************************************************************)
VRAM_ADD_INCREMENT == 4
GENERATE_NMI == 128
SHOW_BACKGROUND == 8
SHOW_SPRITES == 16
VBLANK_STARTED == 128
SPRITE_0_HIT == 64
SPRITE_OVERFLOW == 32

(***************************************************************************)
(* ppu.rs: AddrRegister                                                    *)
(***************************************************************************)
AddrNew == [hi |-> 0, lo |-> 0, hi_ptr |-> TRUE]

AddrGet(a) == Word(a.hi, a.lo)

AddrSet(a, data) == [a EXCEPT !.hi = Hi(data), !.lo = Lo(data)]

\* "Mirror down addresses greater than 0x3FFF"
AddrMirrorDown(a) ==
    IF AddrGet(a) > 16383 THEN AddrSet(a, LowBits(AddrGet(a), 14)) ELSE a

AddrUpdate(a, data) ==
    [AddrMirrorDown(IF a.hi_ptr THEN [a EXCEPT !.hi = data]
                                ELSE [a EXCEPT !.lo = data])
        EXCEPT !.hi_ptr = ~a.hi_ptr]

\* increment without the mirroring down of addresses above 0x3FFF
AddrIncrementNoMirror(a, inc) ==
    [a EXCEPT !.lo = (a.lo + inc) % 256,
              !.hi = IF a.lo > (a.lo + inc) % 256 THEN (a.hi + 1) % 256 ELSE a.hi]

AddrIncrement(a, inc) ==
    AddrMirrorDown([a EXCEPT !.lo = (a.lo + inc) % 256,
                             !.hi = IF a.lo > (a.lo + inc) % 256
                                    THEN (a.hi + 1) % 256 ELSE a.hi])

AddrResetLatch(a) == [a EXCEPT !.hi_ptr = TRUE]

(***************************************************************************)
(* ppu.rs: ScrollRegister                                                  *)
(***************************************************************************)
ScrollNew == [scroll_x |-> 0, scroll_y |-> 0, latch |-> FALSE]

ScrollWrite(s, data) ==
    [(IF ~s.latch THEN [s EXCEPT !.scroll_x = data] ELSE [s EXCEPT !.scroll_y = data])
        EXCEPT !.latch = ~s.latch]

ScrollResetLatch(s) == [s EXCEPT !.latch = FALSE]

(***************************************************************************)
(* ppu.rs: NesPPU                                                          *)
(***************************************************************************)
PpuNew(chr_rom, mirroring) ==
    [chr_rom |-> chr_rom,
     mirroring |-> mirroring,
     ctrl |-> 0,
     mask |-> 0,
     status |-> 0,
     scroll |-> ScrollNew,
     vram |-> Zeroed,
     oam_addr |-> 0,
     oam_data |-> Zeroed,
     palette_table |-> Zeroed,
     addr |-> AddrNew,
     internal_data_buf |-> 0,
     scanline |-> 0,
     cycles |-> 0,
     nmi_interrupt |-> FALSE]

VramAddrIncrement(ctrl) == IF ~Contains(ctrl, VRAM_ADD_INCREMENT) THEN 1 ELSE 32

\* a tick() that also clears VBlank on entering the pre-render scanline 261
PpuTickStatusClearAt261(st, sl) ==
    CASE sl = 241 -> Insert(st, VBLANK_STARTED)
      [] sl = 261 -> Remove(st, VBLANK_STARTED)
      [] OTHER -> st

\* the status register after tick() has moved to scanline `sl`, before the
\* frame-wrap branch: `if self.scanline == 241 { insert(VBLANK_STARTED) ...`
PpuTickStatus(st, sl) == IF sl = 241 THEN Insert(st, VBLANK_STARTED) ELSE st

\* the sprite-0-hit test of tick(), c1 being `self.cycles` after the add
SpriteZeroHit(p, c1) ==
    /\ p.scanline < 240 /\ c1 >= 1 /\ c1 <= 256
    /\ Contains(p.mask, SHOW_BACKGROUND)
    /\ Contains(p.mask, SHOW_SPRITES)
    /\ ~Contains(p.status, SPRITE_0_HIT)
    /\ Rd(p.oam_data, 0) = p.scanline /\ Rd(p.oam_data, 3) = c1 /\ c1 # 255

\* `if self.scanline >= 262 { ... return true }`, else `false`
PpuTickFrame(p) ==
    IF p.scanline >= 262
    THEN [ppu |-> [p EXCEPT !.scanline = 0,
                            !.nmi_interrupt = FALSE,
                            !.status = Remove(Remove(Remove(@, VBLANK_STARTED),
                                                     SPRITE_OVERFLOW), SPRITE_0_HIT)],
          frame_complete |-> TRUE]
    ELSE [ppu |-> p, frame_complete |-> FALSE]

\* the body of `if self.cycles >= 341`, entering scanline sl
PpuTickLine(p, c1, sl) ==
    PpuTickFrame([p EXCEPT !.cycles = c1 % 341,
                           !.scanline = sl,
                           !.status = PpuTickStatus(p.status, sl),
                           !.nmi_interrupt =
                               IF sl = 241 /\ Contains(p.ctrl, GENERATE_NMI)
                               THEN TRUE ELSE p.nmi_interrupt])

\* tick() after the sprite-0-hit test: `self.scanline += 1` once per call
PpuTickCycles(p, c1) ==
    IF c1 >= 341
    THEN PpuTickLine(p, c1, p.scanline + 1)
    ELSE [ppu |-> [p EXCEPT !.cycles = c1], frame_complete |-> FALSE]

\* NesPPU::tick; the result carries the returned frame-complete flag
PpuTick(p, n) ==
    PpuTickCycles(IF SpriteZeroHit(p, p.cycles + n)
                  THEN [p EXCEPT !.status = Insert(@, SPRITE_0_HIT)]
                  ELSE p,
                  p.cycles + n)

\* before_nmi_status is Contains(p.ctrl, ..), after_nmi_status Contains(value, ..)
WriteToCtrl(p, value) ==
    [p EXCEPT !.ctrl = value,
              !.nmi_interrupt =
                  IF /\ ~Contains(p.ctrl, GENERATE_NMI)
                     /\ Contains(value, GENERATE_NMI)
                     /\ Contains(p.status, VBLANK_STARTED)
                  THEN TRUE ELSE p.nmi_interrupt]

WriteToScroll(p, value) == [p EXCEPT !.scroll = ScrollWrite(p.scroll, value)]

WriteToMask(p, value) == [p EXCEPT !.mask = value]

WriteToOamAddr(p, value) == [p EXCEPT !.oam_addr = value]

WriteToOamData(p, value) ==
    [p EXCEPT !.oam_data = Wr(p.oam_data, p.oam_addr, value),
              !.oam_addr = (p.oam_addr + 1) % 256]

\* a read_status that resets the PPUADDR latch only
ReadStatusPpuAddrLatchOnly(p) ==
    [p EXCEPT !.status = Remove(p.status, VBLANK_STARTED),
              !.addr = AddrResetLatch(p.addr)]

\* read_status: the returned byte is `data`, the PPU afterwards is `ppu`
ReadStatusPpu(p) ==
    [p EXCEPT !.status = Remove(p.status, VBLANK_STARTED),
              !.addr = AddrResetLatch(p.addr),
              !.scroll = ScrollResetLatch(p.scroll)]

ReadStatus(p) == [data |-> p.status, ppu |-> ReadStatusPpu(p)]

WriteToPpuAddr(p, value) == [p EXCEPT !.addr = AddrUpdate(p.addr, value)]

IncrementVramAddr(p) ==
    [p EXCEPT !.addr = AddrIncrement(p.addr, VramAddrIncrement(p.ctrl))]

\* the `match (&self.mirroring, name_table_index)` of mirror_vram_addr, the
\* name table index being `vram_index / 0x400`
MirrorVramIndex(mirroring, vram_index) ==
    CASE mirroring = "VERTICAL" /\ vram_index \div 1024 \in {2, 3} -> vram_index - 2048
      [] mirroring = "HORIZONTAL" /\ vram_index \div 1024 \in {1, 2} -> vram_index - 1024
      [] mirroring = "HORIZONTAL" /\ vram_index \div 1024 = 3 -> vram_index - 2048
      [] OTHER -> vram_index

\* mirrored_vram is `addr & 0x2FFF`, vram_index `mirrored_vram - 0x2000`
MirrorVramAddr(mirroring, addr) ==
    MirrorVramIndex(mirroring, BitAndLow(addr, 13, 12) - 8192)

\* a renderer whose Vertical and Horizontal tables are exchanged
RenderPageIdxSwapped(mirroring, nametable_idx) ==
    CASE mirroring = "VERTICAL" -> <<0, 0, 1, 1>>[nametable_idx + 1]
      [] mirroring = "HORIZONTAL" -> <<0, 1, 0, 1>>[nametable_idx + 1]
      [] OTHER -> nametable_idx

\* render.rs: `let page_idx = match ppu.mirroring { ... }`
RenderPageIdx(mirroring, nametable_idx) ==
    CASE mirroring = "VERTICAL" -> <<0, 1, 0, 1>>[nametable_idx + 1]
      [] mirroring = "HORIZONTAL" -> <<0, 0, 1, 1>>[nametable_idx + 1]
      [] OTHER -> nametable_idx

\* the palette index of an address in 0x3F00..=0x3FFF, the mirrors
\* 0x10/0x14/0x18/0x1C folded onto 0x00/0x04/0x08/0x0C
PaletteAddr(addr) ==
    IF (addr - 16128) % 32 \in {16, 20, 24, 28}
    THEN ((addr - 16128) % 32) - 16 ELSE (addr - 16128) % 32

\* the `match addr` of write_to_data
WriteToDataAt(p, addr, value) ==
    CASE addr <= 8191 -> p
      [] addr >= 8192 /\ addr <= 16127 ->
           [p EXCEPT !.vram =
               Wr(p.vram,
                  MirrorVramAddr(p.mirroring,
                                 IF addr <= 12287 THEN addr ELSE addr - 4096),
                  value)]
      [] OTHER ->
           [p EXCEPT !.palette_table = Wr(p.palette_table, PaletteAddr(addr), value)]

WriteToData(p, value) == IncrementVramAddr(WriteToDataAt(p, AddrGet(p.addr), value))

\* what read_data puts into internal_data_buf for an address below 0x3F00
ReadDataRefill(p, addr) ==
    IF addr <= 8191 THEN Rd(p.chr_rom, addr)
    ELSE Rd(p.vram, MirrorVramAddr(p.mirroring, BitAndLow(addr, 13, 12)))

\* a read_data that returns the byte at the address, without the buffer
ReadDataUnbuffered(p, addr) == ReadDataRefill(p, addr)

\* what read_data returns for an address below 0x3F00
ReadDataBuffered(p, addr) == p.internal_data_buf

\* the `match addr` of read_data, p being the PPU after increment_vram_addr
ReadDataAt(p, addr) ==
    IF addr <= 16127
    THEN [data |-> ReadDataBuffered(p, addr),
          ppu |-> [p EXCEPT !.internal_data_buf = ReadDataRefill(p, addr)]]
    ELSE [data |-> Rd(p.palette_table, PaletteAddr(addr)), ppu |-> p]

ReadData(p) == ReadDataAt(IncrementVramAddr(p), AddrGet(p.addr))

PollNmiInterrupt(p) == [p EXCEPT !.nmi_interrupt = FALSE]

(***************************************************************************)
(* apu.rs: Apu (frame counter, and of the pulse, triangle and noise units  *)
(* the enable flag, the length counter and the triangle's linear counter;  *)
(* timers, envelopes, sweeps and the sample mixer shape the audio samples  *)
(* only and are left out)                                                  *)
(***************************************************************************)
LENGTH_COUNTER_TABLE ==
    << 10, 254, 20, 2, 40, 4, 80, 6, 160, 8, 60, 10, 14, 12, 26, 14,
       12, 16, 24, 18, 48, 20, 96, 22, 192, 24, 72, 26, 16, 28, 32, 30 >>

\* Noise::new (Default): the enable flag and the length counter
ChannelNew == [enabled |-> FALSE, length_counter |-> 0, length_counter_halt |-> FALSE]

\* Sweep (Default)
SweepNew ==
    [enabled |-> FALSE, negate |-> FALSE, reload |-> FALSE,
     period |-> 0, divider |-> 0, shift |-> 0]

\* Pulse::new (Default)
PulseNew ==
    [enabled |-> FALSE, length_counter |-> 0, length_counter_halt |-> FALSE,
     timer_period |-> 0, sweep |-> SweepNew, sweep_muted |-> FALSE]

\* Sweep::write
SweepWrite(sw, data) ==
    [sw EXCEPT !.enabled = Contains(data, 128),
               !.period = (data % 128) \div 16,
               !.negate = Contains(data, 8),
               !.shift = data % 8,
               !.reload = TRUE]

\* `let change = *timer_period >> self.shift;`
SweepChange(sw, timer_period) == timer_period \div (2 ^ sw.shift)

\* `change + if channel_num == 1 { 1 } else { 0 }`
SubtractAmount(sw, timer_period, channel_num) ==
    SweepChange(sw, timer_period) + (IF channel_num = 1 THEN 1 ELSE 0)

\* target_period: wrapping_sub on u16 when negating, a u16 addition
\* otherwise (the sum is kept unreduced so that an overflow is visible)
TargetPeriod(sw, timer_period, channel_num) ==
    IF sw.negate
    THEN (timer_period + 65536 - SubtractAmount(sw, timer_period, channel_num)) % 65536
    ELSE timer_period + SweepChange(sw, timer_period)

\* the value of `muted` that Sweep::clock returns
SweepMuted(sw, timer_period, channel_num) ==
    \/ sw.negate /\ timer_period < SubtractAmount(sw, timer_period, channel_num)
    \/ timer_period < 8
    \/ TargetPeriod(sw, timer_period, channel_num) > 2047

\* a period update that does not look at `muted`
SweepWritesPeriodMuted(sw, timer_period, channel_num) ==
    sw.divider = 0 /\ sw.enabled /\ sw.shift > 0

\* `if self.divider == 0 && self.enabled && self.shift > 0 && !muted`
SweepWritesPeriod(sw, timer_period, channel_num) ==
    /\ sw.divider = 0 /\ sw.enabled /\ sw.shift > 0
    /\ ~SweepMuted(sw, timer_period, channel_num)

\* the divider part of Sweep::clock
SweepDivider(sw) ==
    IF sw.divider = 0 \/ sw.reload
    THEN [sw EXCEPT !.divider = sw.period, !.reload = FALSE]
    ELSE [sw EXCEPT !.divider = @ - 1]

\* Pulse::clock_sweep: Sweep::clock on the channel's timer_period
ClockSweep(ch, channel_num) ==
    [ch EXCEPT !.sweep_muted = SweepMuted(ch.sweep, ch.timer_period, channel_num),
               !.timer_period =
                   IF SweepWritesPeriod(ch.sweep, ch.timer_period, channel_num)
                   THEN TargetPeriod(ch.sweep, ch.timer_period, channel_num) ELSE @,
               !.sweep = SweepDivider(@)]

\* Pulse::output; duty is PULSE_DUTY_TABLE[duty_mode][duty_step] and volume
\* is envelope.output()
PulseOutput(ch, duty, volume) ==
    IF \/ ~ch.enabled \/ ch.length_counter = 0 \/ duty = 0
       \/ ch.timer_period < 8 \/ ch.sweep_muted
    THEN 0 ELSE volume

\* Pulse::write_sweep
PulseWriteSweep(ch, data) ==
    [ch EXCEPT !.sweep = SweepWrite(@, data)]

\* Pulse::write_timer_lo
PulseWriteTimerLo(ch, data) ==
    [ch EXCEPT !.timer_period = (@ \div 256) * 256 + data]

\* Triangle::new (Default)
TriangleNew ==
    [enabled |-> FALSE, length_counter |-> 0, length_counter_halt |-> FALSE,
     linear_counter |-> 0, linear_counter_period |-> 0, linear_counter_reload |-> FALSE]

\* clock_length_counter of Pulse, Triangle and Noise
ClockLengthCounter(ch) ==
    IF ~ch.length_counter_halt /\ ch.length_counter > 0
    THEN [ch EXCEPT !.length_counter = @ - 1] ELSE ch

\* Triangle::clock_linear_counter
ClockLinearCounter(t) ==
    [t EXCEPT !.linear_counter = CASE t.linear_counter_reload -> t.linear_counter_period
                                   [] @ > 0 -> @ - 1
                                   [] OTHER -> @,
              !.linear_counter_reload = IF ~t.length_counter_halt THEN FALSE ELSE @]

\* a set_enabled that disables without touching the length counter
SetEnabledKeepLength(ch, enabled) == [ch EXCEPT !.enabled = enabled]

\* set_enabled of Pulse, Triangle and Noise
SetEnabled(ch, enabled) ==
    [ch EXCEPT !.enabled = enabled,
               !.length_counter = IF enabled THEN @ ELSE 0]

\* a length load that does not look at the enable flag
LoadLengthAlways(ch, data) ==
    [ch EXCEPT !.length_counter = LENGTH_COUNTER_TABLE[(data \div 8) + 1]]

\* `if self.enabled { self.length_counter = LENGTH_COUNTER_TABLE[data >> 3] }`
\* of write_timer_hi and write_length
LoadLength(ch, data) ==
    IF ch.enabled
    THEN [ch EXCEPT !.length_counter = LENGTH_COUNTER_TABLE[(data \div 8) + 1]]
    ELSE ch

\* write_ctrl of Pulse and Noise: the halt flag is bit 5
WriteCtrl(ch, data) == [ch EXCEPT !.length_counter_halt = Contains(data, 32)]

\* Triangle::write_ctrl
TriangleWriteCtrl(t, data) ==
    [t EXCEPT !.length_counter_halt = Contains(data, 128),
              !.linear_counter_period = LowBits(data, 7)]

\* a write_timer_hi that keeps all eight bits of the data
PulseWriteTimerHiUnmasked(ch, data) ==
    LoadLength([ch EXCEPT !.timer_period = (@ % 256) + data * 256], data)

\* Pulse::write_timer_hi
PulseWriteTimerHi(ch, data) ==
    LoadLength([ch EXCEPT !.timer_period = (@ % 256) + (data % 8) * 256], data)

\* Triangle::write_timer_hi
TriangleWriteTimerHi(t, data) ==
    [LoadLength(t, data) EXCEPT !.linear_counter_reload = TRUE]

STEP1 == 7457
STEP2 == 14913
STEP3 == 22371
STEP4_4STEP == 29781
STEP4_5STEP == 29781
STEP5_5STEP == 37281

ApuNew ==
    [pulse1 |-> PulseNew,
     pulse2 |-> PulseNew,
     triangle |-> TriangleNew,
     noise |-> ChannelNew,
     dmc_enabled |-> FALSE,
     cpu_cycle_counter |-> 0,
     frame_counter_cycle |-> 0,
     frame_counter_mode |-> "Step4",
     interrupt_inhibit |-> FALSE,
     frame_interrupt |-> FALSE]

\* clock_quarter_frame: the three envelopes and the linear counter
ClockQuarterFrame(a) == [a EXCEPT !.triangle = ClockLinearCounter(@)]

\* clock_half_frame: the four length counters and the two sweeps
ClockHalfFrame(a) ==
    [a EXCEPT !.pulse1 = ClockSweep(ClockLengthCounter(@), 1),
              !.pulse2 = ClockSweep(ClockLengthCounter(@), 2),
              !.triangle = ClockLengthCounter(@),
              !.noise = ClockLengthCounter(@)]

\* what clock_frame_counter_step does at frame_counter_cycle c: "quarter"
\* is clock_quarter_frame, "half" clock_half_frame, "interrupt" the
\* frame-interrupt arm
FrameStepEvents(mode, c) ==
    IF mode = "Step4"
    THEN CASE c = STEP1 -> {"quarter"}
           [] c = STEP2 -> {"quarter", "half"}
           [] c = STEP3 -> {"quarter"}
           [] c = STEP4_4STEP -> {"quarter", "half", "interrupt"}
           [] OTHER -> {}
    ELSE CASE c = STEP1 -> {"quarter"}
           [] c = STEP2 -> {"quarter", "half"}
           [] c = STEP3 -> {"quarter"}
           [] c = STEP4_5STEP -> {}
           [] c = STEP5_5STEP -> {"quarter", "half"}
           [] OTHER -> {}

\* `if !self.interrupt_inhibit { self.frame_interrupt = true; }`
\* the STEP4_4STEP arm without its test of interrupt_inhibit
FrameInterruptAlways(a, on) ==
    IF on THEN [a EXCEPT !.frame_interrupt = TRUE] ELSE a

FrameInterruptIf(a, on) ==
    IF on /\ ~a.interrupt_inhibit THEN [a EXCEPT !.frame_interrupt = TRUE] ELSE a

\* the events in the order the arms run them
ClockFrameEvents(a, events) ==
    FrameInterruptIf(CASE "half" \in events -> ClockHalfFrame(ClockQuarterFrame(a))
                       [] "quarter" \in events -> ClockQuarterFrame(a)
                       [] OTHER -> a,
                     "interrupt" \in events)

ClockFrameCounterStep(a) ==
    ClockFrameEvents(a, FrameStepEvents(a.frame_counter_mode, a.frame_counter_cycle))

\* `reset_cycle` of Apu::tick
ResetCycle(mode) == IF mode = "Step4" THEN 29781 ELSE 37282

\* the immediate quarter- and half-frame clock of 5-step mode
ClockIfStep5(a) ==
    ClockFrameEvents(a, IF a.frame_counter_mode = "Step5"
                        THEN {"quarter", "half"} ELSE {})

\* `if self.frame_counter_cycle >= reset_cycle { ... }`
ApuCycleWrap(a) ==
    IF a.frame_counter_cycle >= ResetCycle(a.frame_counter_mode)
    THEN ClockIfStep5([a EXCEPT !.frame_counter_cycle = 0])
    ELSE a

\* one iteration of the `for _ in 0..cpu_cycles` loop of Apu::tick
ApuCycle(a) ==
    ApuCycleWrap([ClockFrameCounterStep([a EXCEPT !.cpu_cycle_counter = @ + 1])
                     EXCEPT !.frame_counter_cycle = @ + 1])

RECURSIVE ApuTick(_, _)
\* the iterations of Apu::tick that follow the state m
ApuTickRest(m, cpu_cycles) ==
    IF m.cpu_cycle_counter >= 0 THEN ApuTick(m, cpu_cycles) ELSE m

\* the `for _ in 0..cpu_cycles` loop of Apu::tick: the first half of the
\* iterations, then the rest
ApuTick(a, cpu_cycles) ==
    CASE cpu_cycles = 0 -> a
      [] cpu_cycles = 1 -> ApuCycle(a)
      [] OTHER -> ApuTickRest(ApuTick(a, cpu_cycles \div 2),
                              cpu_cycles - cpu_cycles \div 2)

\* poll_frame_interrupt: `occurred` is read from the old record
PollFrameInterrupt(a) == [a EXCEPT !.frame_interrupt = FALSE]

\* the `status` byte of mem_read(0x4015)
ApuStatus(a) ==
    (IF a.pulse1.length_counter > 0 THEN 1 ELSE 0)
    + (IF a.pulse2.length_counter > 0 THEN 2 ELSE 0)
    + (IF a.triangle.length_counter > 0 THEN 4 ELSE 0)
    + (IF a.noise.length_counter > 0 THEN 8 ELSE 0)
    + (IF a.dmc_enabled THEN 16 ELSE 0)
    + (IF a.frame_interrupt THEN 64 ELSE 0)

ApuMemRead(a, addr) ==
    IF addr = 16405
    THEN [data |-> ApuStatus(a), apu |-> [a EXCEPT !.frame_interrupt = FALSE]]
    ELSE [data |-> 0, apu |-> a]

\* a 0x4017 arm that clocks nothing
ApuWriteFrameCounterNoClock(a, mode, inhibit) ==
    [a EXCEPT !.frame_counter_mode = mode,
              !.interrupt_inhibit = inhibit,
              !.frame_interrupt = IF inhibit THEN FALSE ELSE @,
              !.frame_counter_cycle = 0]

\* the 0x4017 arm of mem_write
ApuWriteFrameCounter(a, mode, inhibit) ==
    ClockIfStep5([a EXCEPT !.frame_counter_mode = mode,
                           !.interrupt_inhibit = inhibit,
                           !.frame_interrupt = IF inhibit THEN FALSE ELSE @,
                           !.frame_counter_cycle = 0])

\* the 0x4015 arm of mem_write
ApuWriteStatus(a, data) ==
    [a EXCEPT !.pulse1 = SetEnabled(@, Contains(data, 1)),
              !.pulse2 = SetEnabled(@, Contains(data, 2)),
              !.triangle = SetEnabled(@, Contains(data, 4)),
              !.noise = SetEnabled(@, Contains(data, 8)),
              !.dmc_enabled = Contains(data, 16)]

ApuMemWrite(a, addr, data) ==
    CASE addr = 16384 -> [a EXCEPT !.pulse1 = WriteCtrl(@, data)]
      [] addr = 16385 -> [a EXCEPT !.pulse1 = PulseWriteSweep(@, data)]
      [] addr = 16386 -> [a EXCEPT !.pulse1 = PulseWriteTimerLo(@, data)]
      [] addr = 16387 -> [a EXCEPT !.pulse1 = PulseWriteTimerHi(@, data)]
      [] addr = 16388 -> [a EXCEPT !.pulse2 = WriteCtrl(@, data)]
      [] addr = 16389 -> [a EXCEPT !.pulse2 = PulseWriteSweep(@, data)]
      [] addr = 16390 -> [a EXCEPT !.pulse2 = PulseWriteTimerLo(@, data)]
      [] addr = 16391 -> [a EXCEPT !.pulse2 = PulseWriteTimerHi(@, data)]
      [] addr = 16392 -> [a EXCEPT !.triangle = TriangleWriteCtrl(@, data)]
      [] addr = 16395 -> [a EXCEPT !.triangle = TriangleWriteTimerHi(@, data)]
      [] addr = 16396 -> [a EXCEPT !.noise = WriteCtrl(@, data)]
      [] addr = 16399 -> [a EXCEPT !.noise = LoadLength(@, data)]
      [] addr = 16405 -> ApuWriteStatus(a, data)
      [] addr = 16407 ->
           ApuWriteFrameCounter(a, IF Contains(data, 128) THEN "Step5" ELSE "Step4",
                                Contains(data, 64))
      [] OTHER -> a

\* load_state
ApuLoadState(a, state) ==
    [a EXCEPT !.pulse1 = state.pulse1,
              !.pulse2 = state.pulse2,
              !.triangle = state.triangle,
              !.noise = state.noise,
              !.dmc_enabled = state.dmc_enabled,
              !.cpu_cycle_counter = state.cpu_cycle_counter,
              !.frame_counter_cycle = state.frame_counter_cycle,
              !.frame_counter_mode =
                  IF state.frame_counter_mode = 0 THEN "Step4" ELSE "Step5",
              !.interrupt_inhibit = state.interrupt_inhibit,
              !.frame_interrupt = state.frame_interrupt]

(***************************************************************************)
(* cartridge.rs / bus.rs: Rom and Bus                                      *)
(***************************************************************************)
\* a PRG image that is zero except for the three vectors in its last bytes,
\* with an 8 KiB CHR image that is zero except for its first byte
RomImage(prg_len, mirroring, nmi, reset, irq, chr0) ==
    [prg_rom |-> [i \in (prg_len - 6)..(prg_len - 1) |->
                    CASE i = prg_len - 6 -> Lo(nmi)
                      [] i = prg_len - 5 -> Hi(nmi)
                      [] i = prg_len - 4 -> Lo(reset)
                      [] i = prg_len - 3 -> Hi(reset)
                      [] i = prg_len - 2 -> Lo(irq)
                      [] i = prg_len - 1 -> Hi(irq)],
     prg_len |-> prg_len,
     chr_rom |-> Wr(Zeroed, 0, chr0),
     mapper |-> 0,
     screen_mirroring |-> mirroring]

NES_TAG == <<78, 69, 83, 26>>
PRG_ROM_PAGE_SIZE == 16384
CHR_ROM_PAGE_SIZE == 8192

\* A file is [len, bytes]: `bytes` holds the bytes that are not 0.
\* raw[start..start + size], indexed from 0
Slice(raw, start, size) ==
    [i \in { x - start : x \in { y \in DOMAIN raw.bytes : y >= start /\ y < start + size } }
        |-> raw.bytes[i + start]]

\* the mapper id of the header: high nibble of byte 7, high nibble of byte 6
RomMapper(raw) == (Rd(raw.bytes, 7) \div 16) * 16 + Rd(raw.bytes, 6) \div 16

\* the iNES version bits of the header
RomInesVer(raw) == (Rd(raw.bytes, 7) \div 4) % 4

\* Rom::new: Ok(Rom), Err(String), or the panic of an index out of range
RomNew(raw) ==
    LET flags == Rd(raw.bytes, 6)
        prg_rom_size == Rd(raw.bytes, 4) * PRG_ROM_PAGE_SIZE
        chr_rom_size == Rd(raw.bytes, 5) * CHR_ROM_PAGE_SIZE
        prg_rom_start == 16 + (IF Bit(flags, 2) = 1 THEN 512 ELSE 0)
        chr_rom_start == prg_rom_start + prg_rom_size
    IN  CASE raw.len < 4 -> [kind |-> "panic", value |-> "range end index out of range"]
          [] [i \in 1..4 |-> Rd(raw.bytes, i - 1)] # NES_TAG ->
               [kind |-> "Err", value |-> "File is not in iNES file format"]
          [] raw.len < 8 -> [kind |-> "panic", value |-> "index out of bounds"]
          [] RomInesVer(raw) # 0 ->
               [kind |-> "Err", value |-> "NES2.0 format is not supported"]
          [] chr_rom_start + chr_rom_size > raw.len ->
               [kind |-> "panic", value |-> "range end index out of range"]
          [] OTHER ->
               [kind |-> "Ok",
                value |-> [prg_rom |-> Slice(raw, prg_rom_start, prg_rom_size),
                           prg_len |-> prg_rom_size,
                           chr_rom |-> Slice(raw, chr_rom_start, chr_rom_size),
                           mapper |-> RomMapper(raw),
                           screen_mirroring |->
                               CASE Bit(flags, 3) = 1 -> "FOURSCREEN"
                                 [] Bit(flags, 0) = 1 -> "VERTICAL"
                                 [] OTHER -> "HORIZONTAL"]]

(***************************************************************************)
(* joypad.rs: Joypad.  `strobed` is no field of the Joypad: it keeps the   *)
(* button byte as it was at the last write that had the strobe bit set or  *)
(* cleared it (-1 before the first such write), so that properties can     *)
(* refer to it.                                                            *)
(***************************************************************************)
JoypadNew == [strobe |-> FALSE, button_index |-> 0, button_status |-> 0, strobed |-> -1]

\* button is the bit of JoypadButton
SetButtonPressedStatus(j, button, pressed) ==
    [j EXCEPT !.button_status = SetTo(@, button, pressed)]

JoypadWrite(j, data) ==
    [j EXCEPT !.strobe = Bit(data, 0) = 1,
              !.button_index = IF Bit(data, 0) = 1 THEN 0 ELSE @,
              !.strobed = IF j.strobe \/ Bit(data, 0) = 1 THEN j.button_status ELSE @]

\* a read that shifts also while the strobe bit is set
JoypadReadShifting(j) ==
    IF j.button_index > 7 THEN [data |-> 65, joypad |-> j]
    ELSE [data |-> 64 + Bit(j.button_status, j.button_index),
          joypad |-> [j EXCEPT !.button_index = @ + 1]]

\* Joypad::read: `data` is the byte returned, `joypad` the Joypad afterwards
JoypadRead(j) ==
    IF j.button_index > 7 THEN [data |-> 65, joypad |-> j]
    ELSE [data |-> 64 + Bit(j.button_status, j.button_index),
          joypad |-> [j EXCEPT !.button_index = IF j.strobe THEN @ ELSE @ + 1]]

BusNew(rom) ==
    [cpu_vram |-> Zeroed,
     rom |-> rom,
     ppu |-> PpuNew(rom.chr_rom, rom.screen_mirroring),
     apu |-> ApuNew,
     cycles |-> 0,
     nmi_interrupt |-> FALSE,
     irq_interrupt |-> FALSE,
     joypad1 |-> JoypadNew,
     joypad2 |-> JoypadNew,
     gameloop_callback |-> [calls |-> 0, frame_interrupt |-> FALSE],
     game_genie_codes |-> <<>>]

\* Bus::set_game_genie_codes; a code is [address, new_data, compare_data],
\* compare_data being <<>> for None and <<v>> for Some(v)
SetGameGenieCodes(b, codes) == [b EXCEPT !.game_genie_codes = codes]

ReadPrgRomRaw(b, addr) ==
    Rd(b.rom.prg_rom,
       IF b.rom.prg_len = 16384 /\ addr - 32768 >= 16384
       THEN (addr - 32768) % 16384 ELSE addr - 32768)

\* a read_prg_rom that goes on to the next code when a comparison fails
RECURSIVE ReadPrgRomNoBreak(_, _, _)
ReadPrgRomNoBreak(codes, addr, actual_data) ==
    CASE codes = <<>> -> actual_data
      [] Head(codes).address = addr
         /\ Head(codes).compare_data \in {<<>>, <<actual_data>>} -> Head(codes).new_data
      [] OTHER -> ReadPrgRomNoBreak(Tail(codes), addr, actual_data)

\* the `for code in &self.game_genie_codes` loop of read_prg_rom and the
\* raw read that follows it, actual_data being read_prg_rom_raw(addr)
RECURSIVE ReadPrgRomCodes(_, _, _)
ReadPrgRomCodes(codes, addr, actual_data) ==
    CASE codes = <<>> -> actual_data
      [] Head(codes).address # addr -> ReadPrgRomCodes(Tail(codes), addr, actual_data)
      [] Head(codes).compare_data = <<>> -> Head(codes).new_data
      [] Head(codes).compare_data = <<actual_data>> -> Head(codes).new_data
      [] OTHER -> actual_data

ReadPrgRom(b, addr) ==
    ReadPrgRomCodes(b.game_genie_codes, addr, ReadPrgRomRaw(b, addr))

\* a Bus::tick that latches the APU interrupt only
BusTickLatchIrqOnly(b) ==
    [b EXCEPT !.irq_interrupt = b.irq_interrupt \/ b.apu.frame_interrupt,
              !.apu = PollFrameInterrupt(b.apu)]

\* the two latches at the end of Bus::tick
BusTickLatch(b) ==
    [b EXCEPT !.nmi_interrupt = b.nmi_interrupt \/ b.ppu.nmi_interrupt,
              !.ppu = PollNmiInterrupt(b.ppu),
              !.irq_interrupt = b.irq_interrupt \/ b.apu.frame_interrupt,
              !.apu = PollFrameInterrupt(b.apu)]

\* `(self.gameloop_callback)(&self.ppu, &mut self.joypad1, &mut self.apu)`:
\* the callback renders and drains audio, it changes no state of the
\* machine; kept with the Bus are the number of its invocations and the
\* frame-interrupt flag of the Apu handed to the last one
GameloopCallback(b) ==
    [b EXCEPT !.gameloop_callback =
                  [calls |-> @.calls + 1, frame_interrupt |-> b.apu.frame_interrupt]]

\* `let frame_complete = self.ppu.tick(cycles * 3); if frame_complete { .. }`,
\* r being what NesPPU::tick returned
BusTickFrame(b, r) ==
    IF r.frame_complete
    THEN GameloopCallback([b EXCEPT !.ppu = r.ppu])
    ELSE [b EXCEPT !.ppu = r.ppu]

\* a Bus::tick that invokes the frame callback after the two latches
BusTickCallbackLast(b, cycles) ==
    LET r == PpuTick(b.ppu, cycles * 3)
        b1 == BusTickLatch([b EXCEPT !.cycles = @ + cycles,
                                     !.apu = ApuTick(@, cycles),
                                     !.ppu = r.ppu])
    IN  IF r.frame_complete THEN GameloopCallback(b1) ELSE b1

BusTick(b, cycles) ==
    BusTickLatch(BusTickFrame([b EXCEPT !.cycles = @ + cycles,
                                        !.apu = ApuTick(@, cycles)],
                              PpuTick(b.ppu, cycles * 3)))

PollNmiStatus(b) == [b EXCEPT !.nmi_interrupt = FALSE]

\* a read served by the PPU: r is what the PPU method returned
PpuRead(b, r) == [data |-> r.data, bus |-> [b EXCEPT !.ppu = r.ppu]]

\* a read served by the APU
ApuRead(b, r) == [data |-> r.data, bus |-> [b EXCEPT !.apu = r.apu]]

\* the `match mirror_down_addr` of mem_read
MemReadPpu(b, mirror_down_addr) ==
    CASE mirror_down_addr = 8194 -> PpuRead(b, ReadStatus(b.ppu))
      [] mirror_down_addr = 8199 -> PpuRead(b, ReadData(b.ppu))
      [] OTHER -> [data |-> 0, bus |-> b]

\* Mem::mem_read; `data` is the byte returned, `bus` the Bus afterwards
MemRead(b, addr) ==
    CASE addr <= 8191 -> [data |-> Rd(b.cpu_vram, LowBits(addr, 11)), bus |-> b]
      [] addr >= 8192 /\ addr <= 16383 -> MemReadPpu(b, BitAndLow(addr, 13, 3))
      [] addr = 16405 -> ApuRead(b, ApuMemRead(b.apu, addr))
      [] addr = 16406 -> [data |-> JoypadRead(b.joypad1).data,
                          bus |-> [b EXCEPT !.joypad1 = JoypadRead(@).joypad]]
      [] addr = 16407 -> [data |-> JoypadRead(b.joypad2).data,
                          bus |-> [b EXCEPT !.joypad2 = JoypadRead(@).joypad]]
      [] addr >= 32768 -> [data |-> ReadPrgRom(b, addr), bus |-> b]
      [] OTHER -> [data |-> 0, bus |-> b]

\* `(hi << 8) | lo`, hi being the second read
MemReadJoin(lo_data, hi) == [data |-> Word(hi.data, lo_data), bus |-> hi.bus]

\* mem_read_u16 after its first read lo
MemReadHi(lo, pos) == MemReadJoin(lo.data, MemRead(lo.bus, pos + 1))

MemReadU16(b, pos) == MemReadHi(MemRead(b, pos), pos)

\* one read of dma_transfer, as a one-byte sequence
DmaByte(r) == [data |-> <<r.data>>, bus |-> r.bus]

\* the bytes l followed by the bytes u, u read after l
DmaJoin(l, u) == [data |-> l.data \o u.data, bus |-> u.bus]

RECURSIVE DmaRead(_, _, _, _)
\* the reads for i in mid..(to - 1), after the reads l
DmaUpper(l, start_addr, mid, to) == DmaJoin(l, DmaRead(l.bus, start_addr, mid, to))

\* the reads `data[i] = self.mem_read(start_addr + i)` of dma_transfer for
\* i in from..(to - 1), in order: the lower half of the range, then the upper
DmaRead(b, start_addr, from, to) ==
    CASE to <= from -> [data |-> <<>>, bus |-> b]
      [] to = from + 1 -> DmaByte(MemRead(b, (start_addr + from) % 65536))
      [] OTHER -> DmaUpper(DmaRead(b, start_addr, from, (from + to) \div 2),
                           start_addr, (from + to) \div 2, to)

\* the byte write_oam_dma leaves in cell x: byte i (0-based) of `data` lands
\* at oam_addr + i, wrapping
OamDmaAt(p, data, x) ==
    IF ((x - p.oam_addr) % 256) + 1 <= Len(data)
    THEN data[((x - p.oam_addr) % 256) + 1] ELSE Rd(p.oam_data, x)

\* a write_oam_dma that stores byte i in cell i, whatever oam_addr is
WriteOamDmaFromZero(p, data) ==
    [p EXCEPT !.oam_data = [x \in {y \in 0..255 : data[y + 1] # 0} |-> data[x + 1]]]

WriteOamDma(p, data) ==
    [p EXCEPT !.oam_data = [x \in {y \in 0..255 : OamDmaAt(p, data, y) # 0} |->
                               OamDmaAt(p, data, x)],
              !.oam_addr = (p.oam_addr + Len(data)) % 256]

\* `self.ppu.write_oam_dma(&data)`, r being the 256 reads
DmaStore(r) == [r.bus EXCEPT !.ppu = WriteOamDma(@, r.data)]

\* dma_transfer up to, not including, its `self.tick(513)`
DmaCopy(b, page) == DmaStore(DmaRead(b, page * 256, 0, 256))

\* the `match mirror_down_addr` of mem_write
MemWritePpu(p, mirror_down_addr, data) ==
    CASE mirror_down_addr = 8192 -> WriteToCtrl(p, data)
      [] mirror_down_addr = 8193 -> WriteToMask(p, data)
      [] mirror_down_addr = 8195 -> WriteToOamAddr(p, data)
      [] mirror_down_addr = 8196 -> WriteToOamData(p, data)
      [] mirror_down_addr = 8197 -> WriteToScroll(p, data)
      [] mirror_down_addr = 8198 -> WriteToPpuAddr(p, data)
      [] mirror_down_addr = 8199 -> WriteToData(p, data)
      [] OTHER -> p

\* Mem::mem_write; a write to 0x4014 leaves the 513-cycle stall pending
MemWrite(b, addr, data) ==
    CASE addr <= 8191 -> [b EXCEPT !.cpu_vram = Wr(@, LowBits(addr, 11), data)]
      [] addr >= 8192 /\ addr <= 16383 ->
           [b EXCEPT !.ppu = MemWritePpu(@, BitAndLow(addr, 13, 3), data)]
      [] (addr >= 16384 /\ addr <= 16403) \/ addr = 16405 \/ addr = 16407 ->
           [b EXCEPT !.apu = ApuMemWrite(@, addr, data)]
      [] addr = 16404 -> DmaCopy(b, data)
      [] addr = 16406 -> [b EXCEPT !.joypad1 = JoypadWrite(@, data),
                                   !.joypad2 = JoypadWrite(@, data)]
      [] OTHER -> b

(***************************************************************************)
(* cpu.rs: the opcode table (the rows this model executes) and the CPU     *)
(***************************************************************************)
CPU_OPCODES ==
    { [code |-> 0,   name |-> "BRK", bytes |-> 1, cycles |-> 7, mode |-> "Implied"],
      [code |-> 234, name |-> "NOP", bytes |-> 1, cycles |-> 2, mode |-> "Implied"],
      [code |-> 169, name |-> "LDA", bytes |-> 2, cycles |-> 2, mode |-> "Immediate"],
      [code |-> 173, name |-> "LDA", bytes |-> 3, cycles |-> 4, mode |-> "Absolute"],
      [code |-> 141, name |-> "STA", bytes |-> 3, cycles |-> 4, mode |-> "Absolute"],
      [code |-> 88,  name |-> "CLI", bytes |-> 1, cycles |-> 2, mode |-> "Implied"],
      [code |-> 109, name |-> "ADC", bytes |-> 3, cycles |-> 4, mode |-> "Absolute"],
      [code |-> 237, name |-> "SBC", bytes |-> 3, cycles |-> 4, mode |-> "Absolute"],
      [code |-> 120, name |-> "SEI", bytes |-> 1, cycles |-> 2, mode |-> "Implied"],
      [code |-> 208, name |-> "BNE", bytes |-> 2, cycles |-> 2, mode |-> "Relative"],
      [code |-> 240, name |-> "BEQ", bytes |-> 2, cycles |-> 2, mode |-> "Relative"],
      [code |-> 76,  name |-> "JMP", bytes |-> 3, cycles |-> 3, mode |-> "Absolute"],
      [code |-> 108, name |-> "JMP", bytes |-> 3, cycles |-> 5, mode |-> "Indirect"],
      [code |-> 32,  name |-> "JSR", bytes |-> 3, cycles |-> 6, mode |-> "Absolute"],
      [code |-> 96,  name |-> "RTS", bytes |-> 1, cycles |-> 6, mode |-> "Implied"],
      [code |-> 64,  name |-> "RTI", bytes |-> 1, cycles |-> 6, mode |-> "Implied"],
      [code |-> 8,   name |-> "PHP", bytes |-> 1, cycles |-> 3, mode |-> "Implied"],
      [code |-> 40,  name |-> "PLP", bytes |-> 1, cycles |-> 4, mode |-> "Implied"],
      [code |-> 72,  name |-> "PHA", bytes |-> 1, cycles |-> 3, mode |-> "Implied"] }

\* the decoded instruction at PC: a table row and the operand bytes after it
Decoded(op, operand) ==
    [code |-> op.code, name |-> op.name, bytes |-> op.bytes,
     cycles |-> op.cycles, mode |-> op.mode, operand |-> operand]

Ins(name, mode, operand) ==
    Decoded(CHOOSE e \in CPU_OPCODES : e.name = name /\ e.mode = mode, operand)

CpuNew(bus) ==
    [register_a |-> 0,
     register_x |-> 0,
     register_y |-> 0,
     stack_pointer |-> 253,
     status |-> INTERRUPT_DISABLE + BREAK_COMMAND_2,
     program_counter |-> 0,
     bus |-> bus]

GetFlag(c, flag) == Contains(c.status, flag)

SetFlag(c, flag, val) == [c EXCEPT !.status = SetTo(c.status, flag, val)]

UpdateZeroAndNegativeFlags(c, result) ==
    SetFlag(SetFlag(c, ZERO_FLAG, result = 0), NEGATIVE_FLAG, Contains(result, 128))

\* `self.program_counter = self.mem_read_u16(..)`, r being the read
SetPc(c, r) == [c EXCEPT !.program_counter = r.data, !.bus = r.bus]

LoadPc(c, vector) == SetPc(c, MemReadU16(c.bus, vector))

Reset(c) ==
    LoadPc([c EXCEPT !.register_a = 0, !.register_x = 0, !.register_y = 0,
                     !.stack_pointer = 253,
                     !.status = INTERRUPT_DISABLE + BREAK_COMMAND_2],
           65532)

StackPush(c, data) ==
    [c EXCEPT !.bus = MemWrite(@, 256 + c.stack_pointer, data),
              !.stack_pointer = (@ + 255) % 256]

\* stack_pull once the stack pointer is sp, r being the read
Pulled(c, sp, r) == [data |-> r.data, cpu |-> [c EXCEPT !.stack_pointer = sp, !.bus = r.bus]]

StackPull(c) ==
    Pulled(c, (c.stack_pointer + 1) % 256,
           MemRead(c.bus, 256 + ((c.stack_pointer + 1) % 256)))

\* a stack_push_u16 that pushes the low byte first
PushOrderLowFirst(data) == <<Lo(data), Hi(data)>>

\* the order in which stack_push_u16 pushes the two bytes: high, then low
PushOrder(data) == <<Hi(data), Lo(data)>>

StackPushU16(c, data) ==
    StackPush(StackPush(c, PushOrder(data)[1]), PushOrder(data)[2])

\* `hi << 8 | lo`, hi being the second pull
PulledWord(lo_data, hi) == [data |-> Word(hi.data, lo_data), cpu |-> hi.cpu]

\* stack_pull_u16 after its first pull lo
StackPullHi(lo) == PulledWord(lo.data, StackPull(lo.cpu))

StackPullU16(c) == StackPullHi(StackPull(c))

\* get_operand_address for the modes of the rows above
GetOperandAddress(c, ins) ==
    CASE ins.mode = "Immediate" -> c.program_counter + 1
      [] ins.mode = "Absolute" -> ins.operand
      [] ins.mode = "Relative" ->
           (c.program_counter + 2
               + (IF ins.operand >= 128 THEN ins.operand + 65280 ELSE ins.operand))
               % 65536

\* an Indirect arm that always reads the high byte at ptr + 1
IndirectAddressNextByte(b, ptr) == MemReadU16(b, ptr)

\* the Indirect arm of get_operand_address, ptr being the operand word:
\* `data` is the address, `bus` the Bus after the two reads
IndirectAddress(b, ptr) ==
    IF LowBits(ptr, 8) = 255
    THEN MemReadJoin(MemRead(b, ptr).data, MemRead(MemRead(b, ptr).bus, ptr - 255))
    ELSE MemReadU16(b, ptr)

\* `self.program_counter = self.get_operand_address(mode)` in Indirect mode,
\* r being the address read
JumpIndirect(c, r) == [c EXCEPT !.program_counter = r.data, !.bus = r.bus]

\* get_operand: the immediate byte is the operand byte of the instruction
GetOperand(c, ins) ==
    IF ins.mode = "Immediate" THEN [data |-> ins.operand, bus |-> c.bus]
    ELSE MemRead(c.bus, GetOperandAddress(c, ins))

\* a ^ b on bytes
Xor8(a, b) ==
    LET x(i) == ((Bit(a, i) + Bit(b, i)) % 2) * (2 ^ i)
    IN  x(0) + x(1) + x(2) + x(3) + x(4) + x(5) + x(6) + x(7)

\* an overflow test that looks at the two operands only
OverflowOfOperands(a, value, result) == Bit(Xor8(a, value), 7) = 0

\* `(self.register_a ^ result) & (value ^ result) & 0x80 != 0`
Overflow(a, value, result) ==
    Bit(Xor8(a, result), 7) = 1 /\ Bit(Xor8(value, result), 7) = 1

\* the flags and the accumulator once `sum` is known
AddResult(c, value, sum) ==
    UpdateZeroAndNegativeFlags(
        [SetFlag(SetFlag(c, CARRY_FLAG, sum > 255),
                 OVERFLOW_FLAG, Overflow(c.register_a, value, sum % 256))
            EXCEPT !.register_a = sum % 256],
        sum % 256)

\* adc after get_operand returned r; sbc calls it with the operand
\* complemented (`let addend = !value`)
AddWithCarry(c, value, bus) ==
    AddResult([c EXCEPT !.bus = bus], value,
              c.register_a + value + (IF GetFlag(c, CARRY_FLAG) THEN 1 ELSE 0))

Adc(c, r) == AddWithCarry(c, r.data, r.bus)

Sbc(c, r) == AddWithCarry(c, Xor8(r.data, 255), r.bus)

\* the status byte interrupt_nmi pushes
NmiPushedStatus(status) == Insert(Remove(status, BREAK_COMMAND), BREAK_COMMAND_2)

\* the address interrupt_nmi loads the program counter from
NmiVectorAddr == 65530

InterruptNmi(c) ==
    LoadPc(SetFlag(StackPush(StackPushU16(c, c.program_counter),
                             NmiPushedStatus(c.status)),
                   INTERRUPT_DISABLE, TRUE),
           NmiVectorAddr)

\* the interrupt check at the top of the run loop
PollInterrupts(c) ==
    IF c.bus.nmi_interrupt
    THEN InterruptNmi([c EXCEPT !.bus = PollNmiStatus(c.bus)])
    ELSE c

\* `self.program_counter = addr`
JumpTo(c, addr) == [c EXCEPT !.program_counter = addr]


\* the result of a match arm: `target` is the program counter the arm
\* assigned (-1 when it assigned none), `dma` tells that it wrote 0x4014
NoJump(c) == [cpu |-> c, dma |-> FALSE, target |-> -1]

Jump(c) == [cpu |-> c, dma |-> FALSE, target |-> c.program_counter]

\* branch(mode, condition)
Branch(c, ins, condition) ==
    IF condition THEN Jump(JumpTo(c, GetOperandAddress(c, ins))) ELSE NoJump(c)

\* the status byte BRK and PHP push
BreakStatus(status) == Insert(Insert(status, BREAK_COMMAND), BREAK_COMMAND_2)

\* the flags RTI and PLP leave after `self.status = self.stack_pull()`
\* a pull into P that keeps bits 4 and 5 as pulled
PulledStatusRaw(s) == [s.cpu EXCEPT !.status = s.data]

PulledStatus(s) ==
    SetFlag(SetFlag([s.cpu EXCEPT !.status = s.data], BREAK_COMMAND, FALSE),
            BREAK_COMMAND_2, TRUE)

\* `self.program_counter = ..`, r being the word pulled from the stack
PulledPc(r, offset) == [r.cpu EXCEPT !.program_counter = (r.data + offset) % 65536]

\* lda once the operand r is read
LoadA(c, r) ==
    UpdateZeroAndNegativeFlags([c EXCEPT !.register_a = r.data, !.bus = r.bus], r.data)

\* sta to the operand address addr
StoreA(c, addr) ==
    [cpu |-> [c EXCEPT !.bus = MemWrite(@, addr, c.register_a)],
     dma |-> addr = 16404, target |-> -1]

\* the `match name` arm of one instruction
Execute(c, ins) ==
    CASE ins.name = "NOP" -> NoJump(c)
      [] ins.name = "BRK" ->
           Jump(LoadPc(SetFlag(StackPush(StackPushU16(c, c.program_counter + 1),
                                         BreakStatus(c.status)),
                               INTERRUPT_DISABLE, TRUE),
                       65534))
      [] ins.name = "LDA" -> NoJump(LoadA(c, GetOperand(c, ins)))
      [] ins.name = "STA" -> StoreA(c, GetOperandAddress(c, ins))
      [] ins.name = "ADC" -> NoJump(Adc(c, GetOperand(c, ins)))
      [] ins.name = "SBC" -> NoJump(Sbc(c, GetOperand(c, ins)))
      [] ins.name = "JMP" /\ ins.mode = "Absolute" ->
           Jump(JumpTo(c, GetOperandAddress(c, ins)))
      [] ins.name = "JMP" /\ ins.mode = "Indirect" ->
           Jump(JumpIndirect(c, IndirectAddress(c.bus, ins.operand)))
      [] ins.name = "JSR" ->
           Jump(JumpTo(StackPushU16(c, c.program_counter + 2),
                       GetOperandAddress(c, ins)))
      [] ins.name = "BEQ" -> Branch(c, ins, GetFlag(c, ZERO_FLAG))
      [] ins.name = "BNE" -> Branch(c, ins, ~GetFlag(c, ZERO_FLAG))
      [] ins.name = "RTS" -> Jump(PulledPc(StackPullU16(c), 1))
      [] ins.name = "RTI" -> Jump(PulledPc(StackPullU16(PulledStatus(StackPull(c))), 0))
      [] ins.name = "CLI" -> NoJump(SetFlag(c, INTERRUPT_DISABLE, FALSE))
      [] ins.name = "SEI" -> NoJump(SetFlag(c, INTERRUPT_DISABLE, TRUE))
      [] ins.name = "PHA" -> NoJump(StackPush(c, c.register_a))
      [] ins.name = "PHP" -> NoJump(StackPush(c, BreakStatus(c.status)))
      [] ins.name = "PLP" -> NoJump(PulledStatus(StackPull(c)))

\* the end of the loop body: the program counter moves past the instruction
\* when the arm left it where it was (`pc_state == self.program_counter`)
AdvancePc(c, pc_state, bytes) ==
    IF pc_state = c.program_counter
    THEN [c EXCEPT !.program_counter = c.program_counter + bytes]
    ELSE c

(***************************************************************************)
(* The run loop of CPU::run_with_callback as steps                         *)
(***************************************************************************)
NoOpcode ==
    [ins |-> [code |-> -1, name |-> "none", bytes |-> 0, cycles |-> 0,
              mode |-> "Implied", operand |-> 0],
     pc_state |-> -1, target |-> -1,
     before |-> [status |-> 0, ctrl |-> 0]]

\* PPUSTATUS and PPUCTRL as they are when an operation starts (history kept
\* with the loop's locals, so that properties can refer to it)
Before == [status |-> cpu.bus.ppu.status, ctrl |-> cpu.bus.ppu.ctrl]

\* loop top: `if self.bus.poll_nmi_status().is_some() { self.interrupt_nmi() }`
Poll ==
    /\ at = "poll"
    /\ cpu' = PollInterrupts(cpu)
    /\ at' = "fetch"
    /\ UNCHANGED <<opcode, steps, ret>>

\* fetch, decode and the match arm of one instruction out of `prog`, the
\* instructions the program memory may hold at the program counter
\* the loop's variables once the match arm of ins has run with result r
Fetched(ins, r) ==
    /\ cpu' = r.cpu
    /\ opcode' = [ins |-> ins, pc_state |-> cpu.program_counter,
                  target |-> r.target, before |-> Before]
    /\ at' = IF r.dma THEN "dma" ELSE "tick"

FetchFrom(prog) ==
    /\ at = "fetch"
    /\ \E ins \in prog : Fetched(ins, Execute(cpu, ins))
    /\ UNCHANGED ret

Fetch(prog, bound) ==
    /\ steps < bound
    /\ FetchFrom(prog)
    /\ steps' = steps + 1

\* a dma_transfer that stalls for 514 cycles
DmaStall514 ==
    /\ at = "dma"
    /\ cpu' = [cpu EXCEPT !.bus = BusTick(cpu.bus, 514)]
    /\ at' = IF opcode.ins.name \in {"none", "write"} THEN "fetch" ELSE "tick"
    /\ UNCHANGED <<opcode, steps, ret>>

\* the `self.tick(513)` that ends dma_transfer
DmaStall ==
    /\ at = "dma"
    /\ cpu' = [cpu EXCEPT !.bus = BusTick(cpu.bus, 513)]
    /\ at' = IF opcode.ins.name \in {"none", "write"} THEN "fetch" ELSE "tick"
    /\ UNCHANGED <<opcode, steps, ret>>

\* `self.bus.tick(opcode_ref.cycles)` and the program counter update
OpTick ==
    /\ at = "tick"
    /\ cpu' = AdvancePc([cpu EXCEPT !.bus = BusTick(cpu.bus, opcode.ins.cycles)],
                        opcode.pc_state, opcode.ins.bytes)
    /\ at' = "poll"
    /\ UNCHANGED <<opcode, steps, ret>>

(***************************************************************************)
(* Host operations on the Bus between two instructions                     *)
(***************************************************************************)
\* the variables once a host-issued mem_read(addr) has returned r
HostRead(addr, r) ==
    /\ cpu' = [cpu EXCEPT !.bus = r.bus]
    /\ ret' = r.data
    /\ opcode' = [NoOpcode EXCEPT !.ins.name = "read", !.ins.operand = addr,
                              !.before = Before]

\* Bus::mem_read(addr) issued outside an instruction
BusRead(addrs, bound) ==
    /\ at = "fetch"
    /\ steps < bound
    /\ \E addr \in addrs : HostRead(addr, MemRead(cpu.bus, addr))
    /\ steps' = steps + 1
    /\ UNCHANGED at

\* Bus::mem_write(addr, data) issued outside an instruction
BusWrite(addrs, datas, bound) ==
    /\ at = "fetch"
    /\ steps < bound
    /\ \E addr \in addrs, data \in datas :
         /\ cpu' = [cpu EXCEPT !.bus = MemWrite(cpu.bus, addr, data)]
         /\ opcode' = [NoOpcode EXCEPT !.ins.name = "write", !.ins.operand = addr,
                                       !.ins.code = data, !.before = Before]
         /\ at' = IF addr = 16404 THEN "dma" ELSE "fetch"
    /\ steps' = steps + 1
    /\ UNCHANGED ret

\* Bus::tick(n) issued outside an instruction
BusTickStep(sizes, bound) ==
    /\ at = "fetch"
    /\ steps < bound
    /\ \E n \in sizes :
         /\ cpu' = [cpu EXCEPT !.bus = BusTick(cpu.bus, n)]
         /\ opcode' = [NoOpcode EXCEPT !.ins.name = "tick", !.ins.cycles = n,
                                       !.before = Before]
    /\ steps' = steps + 1
    /\ UNCHANGED <<at, ret>>

\* Bus::tick for the cycles of an instruction, up to Bus cycle `last`
BusTickUntil(sizes, last) ==
    /\ at = "fetch"
    /\ \E n \in sizes :
         /\ cpu.bus.cycles + n <= last
         /\ cpu' = [cpu EXCEPT !.bus = BusTick(cpu.bus, n)]
         /\ opcode' = [NoOpcode EXCEPT !.ins.name = "tick", !.ins.cycles = n,
                                       !.before = Before]
    /\ UNCHANGED <<at, steps, ret>>

\* a key event handled in the host callback, at the loop top:
\* `cpu.bus.joypad1.set_button_pressed_status(*button, pressed)`
HostButton(buttons, bound) ==
    /\ at = "fetch"
    /\ steps < bound
    /\ \E button \in buttons, pressed \in BOOLEAN :
         /\ cpu' = [cpu EXCEPT !.bus.joypad1 =
                                   SetButtonPressedStatus(@, button, pressed)]
         /\ opcode' = [NoOpcode EXCEPT !.ins.name = "button", !.ins.operand = button,
                                       !.ins.code = IF pressed THEN 1 ELSE 0,
                                       !.before = Before]
    /\ steps' = steps + 1
    /\ UNCHANGED <<at, ret>>

\* the host callback asks the loop to stop (the closure's `return false`).
\* run_with_callback takes an `FnMut(&mut CPU)`: `callback(self);` has no
\* value to look at and the `loop` has no exit, so the fetch comes next.
HostStop(bound) ==
    /\ at = "fetch"
    /\ steps < bound
    /\ opcode' = [NoOpcode EXCEPT !.ins.name = "stop", !.before = Before]
    /\ steps' = steps + 1
    /\ UNCHANGED <<cpu, at, ret>>

\* Apu::load_state with a snapshot taken from a save file
HostLoadState(states, bound) ==
    /\ at = "fetch"
    /\ steps < bound
    /\ \E state \in states :
         cpu' = [cpu EXCEPT !.bus.apu = ApuLoadState(cpu.bus.apu, state)]
    /\ opcode' = [NoOpcode EXCEPT !.ins.name = "load_state", !.before = Before]
    /\ steps' = steps + 1
    /\ UNCHANGED <<at, ret>>

(***************************************************************************)
(* Initial states                                                          *)
(***************************************************************************)
\* two cartridges: NROM-128 and NROM-256, with different vectors
Roms ==
    { RomImage(16384, "HORIZONTAL", 36864, 32768, 40960, 90),
      RomImage(32768, "VERTICAL", 53248, 49152, 57344, 165) }

\* Bus::new, CPU::new and CPU::reset
PowerOn(rom) == Reset(CpuNew(BusNew(rom)))

\* the emulator thread before a ROM is loaded: no Bus, no CPU
NoCpu == [loaded |-> FALSE]

\* the emulator thread reads the file and builds the machine:
\* `Rom::new(&buffer).unwrap()`, Bus::new, CPU::new, cpu.reset()
LoadRom(images) ==
    /\ at = "load"
    /\ \E raw \in images :
         /\ cpu' = IF RomNew(raw).kind = "Ok" THEN PowerOn(RomNew(raw).value) ELSE cpu
         /\ at' = IF RomNew(raw).kind = "Ok" THEN "poll" ELSE "dead"
         /\ opcode' = [NoOpcode EXCEPT !.ins.name = "load_rom", !.ins.operand = raw]
         /\ ret' = RomNew(raw).kind
    /\ steps' = steps + 1

\* The machine at an instruction boundary k CPU cycles after power-on
\* (k < 29781, inside the first PPU frame) when the program so far was an
\* idle loop at the reset vector: no register was written, every tick was
\* shorter than a scanline.
IdleCpu(rom, k) ==
    [PowerOn(rom) EXCEPT
        !.bus.cycles = k,
        !.bus.apu.cpu_cycle_counter = k,
        !.bus.apu.frame_counter_cycle = k,
        !.bus.apu.pulse1.sweep_muted = k > STEP2,
        !.bus.apu.pulse2.sweep_muted = k > STEP2,
        !.bus.ppu.scanline = (3 * k) \div 341,
        !.bus.ppu.cycles = (3 * k) % 341,
        !.bus.ppu.status = IF (3 * k) \div 341 >= 241 THEN VBLANK_STARTED ELSE 0]

InitAt(starts) ==
    /\ \E rom \in Roms, k \in starts : cpu = IdleCpu(rom, k)
    /\ at = "poll"
    /\ opcode = NoOpcode
    /\ steps = 0
    /\ ret = 0

ResetVector == Word(ReadPrgRom(cpu.bus, 65533), ReadPrgRom(cpu.bus, 65532))

(***************************************************************************)
(* SpecIdle: power-on, then an idle loop at the reset vector               *)
(*     T0: NOP or JMP T1     T0+1: JMP T0     T1 = T0+16: JMP T0            *)
(***************************************************************************)
IdleProgram ==
    LET t0 == ResetVector
        pc == cpu.program_counter
    IN  CASE pc = t0 -> {Ins("NOP", "Implied", 0), Ins("JMP", "Absolute", t0 + 16)}
          [] OTHER -> {Ins("JMP", "Absolute", t0)}

FetchIdle ==
    /\ cpu.bus.cycles < IdleCycles
    /\ FetchFrom(IdleProgram)
    /\ UNCHANGED steps

InitIdle == InitAt({0})

NextIdle == Poll \/ FetchIdle \/ OpTick

SpecIdle == InitIdle /\ [][NextIdle]_vars

\* the closed form used for the initial states of the other specifications
IdleClosedForm ==
    (at = "poll" /\ cpu.program_counter = ResetVector /\ cpu.bus.cycles < 29781)
        => cpu = IdleCpu(cpu.bus.rom, cpu.bus.cycles)

(***************************************************************************)
(* SpecCpu: control flow, stack and interrupt instructions.  The program   *)
(* memory may hold any of these instructions at the program counter.  The  *)
(* runs start late on scanline 240, so that a program that sets            *)
(* GENERATE_NMI gets an NMI within a few instructions.                     *)
(***************************************************************************)
ProgramCpu ==
    LET pc == cpu.program_counter
    IN  { Ins("NOP", "Implied", 0), Ins("BRK", "Implied", 0),
          Ins("CLI", "Implied", 0), Ins("SEI", "Implied", 0),
          Ins("PHP", "Implied", 0), Ins("PLP", "Implied", 0),
          Ins("RTS", "Implied", 0), Ins("RTI", "Implied", 0),
          Ins("LDA", "Immediate", 0), Ins("LDA", "Immediate", 128),
          Ins("STA", "Absolute", 8192) }
        \cup { Ins("JMP", "Absolute", t) : t \in {pc, ResetVector + 32} }
        \cup { Ins("JSR", "Absolute", t) : t \in {pc + 3, ResetVector + 32} }
        \cup { Ins(b, "Relative", o) : b \in {"BEQ", "BNE"}, o \in {254, 2} }

\* snapshots a save file may hold (ApuState)
ApuStates ==
    { [pulse1 |-> PulseNew, pulse2 |-> PulseNew, triangle |-> TriangleNew,
       noise |-> ChannelNew, dmc_enabled |-> FALSE,
       cpu_cycle_counter |-> 0, frame_counter_cycle |-> 0, frame_counter_mode |-> 0,
       interrupt_inhibit |-> FALSE, frame_interrupt |-> f] : f \in BOOLEAN }

FetchCpu == Fetch(ProgramCpu, MaxInstr)

LoadStateCpu == HostLoadState(ApuStates, MaxInstr)

InitCpu == InitAt({27390})

NextCpu == Poll \/ FetchCpu \/ LoadStateCpu \/ OpTick

SpecCpu == InitCpu /\ [][NextCpu]_vars

(***************************************************************************)
(* Properties: CPU                                                         *)
(***************************************************************************)
IFlag(c) == Contains(c.status, INTERRUPT_DISABLE)
StackAt(c, sp) == Rd(c.bus.cpu_vram, 256 + (sp % 256))
Vector(c, addr) == Word(ReadPrgRom(c.bus, addr + 1), ReadPrgRom(c.bus, addr))
IsInstruction ==
    opcode.ins.name \notin {"none", "read", "write", "tick", "load_state", "set_codes",
                             "mirror", "page", "button", "stop", "load_rom",
                             "trace", "clock_timer", "write_period"}

\* C1: after JMP, JSR, RTS, RTI or a taken branch the program counter is the
\* instruction's target, also when the target is the instruction's own
\* address; after any other instruction (BRK aside) it is the address of the
\* instruction plus its length.
C1_PcAfterInstruction ==
    (at = "poll" /\ IsInstruction /\ opcode.ins.name # "BRK") =>
        IF opcode.target # -1
        THEN cpu.program_counter = opcode.target
        ELSE cpu.program_counter = opcode.pc_state + opcode.ins.bytes

\* C3: in 4-step mode with interrupt-inhibit clear and no write to $4017 the
\* frame interrupt has been raised, and latched as an IRQ by the Bus, once
\* 29782 CPU cycles have been ticked (SpecIdle never leaves 4-step mode,
\* never writes $4017 and never clears the IRQ latch).
C3_FrameIrqWithin29782 ==
    (at = "poll" /\ cpu.bus.cycles >= 29782) => cpu.bus.irq_interrupt

\* C4: at the loop top with no NMI latched, the IRQ latch set and I clear,
\* the CPU services the IRQ before the next fetch: PC and P are pushed, I is
\* set, PC is loaded from 0xFFFE/0xFFFF and the latch is cleared; with I set
\* the IRQ is not serviced.
C4_IrqServiced ==
    [][(at = "poll" /\ ~cpu.bus.nmi_interrupt /\ cpu.bus.irq_interrupt) =>
          IF ~IFlag(cpu)
          THEN /\ cpu'.program_counter = Vector(cpu, 65534)
               /\ ~cpu'.bus.irq_interrupt
               /\ IFlag(cpu')
               /\ cpu'.stack_pointer = (cpu.stack_pointer + 253) % 256
               /\ StackAt(cpu', cpu.stack_pointer) = Hi(cpu.program_counter)
               /\ StackAt(cpu', cpu.stack_pointer + 255) = Lo(cpu.program_counter)
          ELSE /\ cpu'.program_counter = cpu.program_counter
               /\ cpu'.stack_pointer = cpu.stack_pointer]_vars

\* C5: when the NMI latch is set at the loop top, the CPU services the NMI
\* before the next fetch: it pushes PC high, PC low, then P with B1 clear
\* and B2 set, sets I, loads PC from 0xFFFA/0xFFFB and leaves the latch
\* clear; without a latched NMI the loop top changes nothing.
C5_NmiServiced ==
    [][at = "poll" =>
          /\ at' = "fetch"
          /\ ~cpu'.bus.nmi_interrupt
          /\ IF cpu.bus.nmi_interrupt
             THEN /\ StackAt(cpu', cpu.stack_pointer) = Hi(cpu.program_counter)
                  /\ StackAt(cpu', cpu.stack_pointer + 255) = Lo(cpu.program_counter)
                  /\ StackAt(cpu', cpu.stack_pointer + 254) =
                         cpu.status - (IF Contains(cpu.status, 16) THEN 16 ELSE 0)
                                    + (IF Contains(cpu.status, 32) THEN 0 ELSE 32)
                  /\ cpu'.stack_pointer = (cpu.stack_pointer + 253) % 256
                  /\ IFlag(cpu')
                  /\ cpu'.program_counter = Vector(cpu, 65530)
             ELSE cpu' = cpu]_vars

\* an NMI was serviced: the handler is about to be fetched, the three
\* pushed bytes are on the stack
C5_Witness ==
    /\ at = "fetch"
    /\ steps > 0
    /\ cpu.program_counter = Vector(cpu, 65530)
    /\ cpu.stack_pointer = 250
    /\ Contains(StackAt(cpu, 251), BREAK_COMMAND_2)
    /\ ~Contains(StackAt(cpu, 251), BREAK_COMMAND)
    /\ Word(StackAt(cpu, 253), StackAt(cpu, 252)) = ResetVector + 5
    /\ ~cpu.bus.nmi_interrupt

(***************************************************************************)
(* SpecNmi: programs that write PPUCTRL, read PPUSTATUS and start OAM DMA  *)
(* around the start of VBlank (scanline 240 -> 241) and around its end     *)
(* (scanline 261 -> 0).                                                    *)
(***************************************************************************)
ProgramNmi ==
    { Ins("NOP", "Implied", 0),
      Ins("LDA", "Immediate", 0), Ins("LDA", "Immediate", 128),
      Ins("LDA", "Absolute", 8194),
      Ins("STA", "Absolute", 8192), Ins("STA", "Absolute", 16404) }

FetchNmi == Fetch(ProgramNmi, MaxInstr)

InitNmi == InitAt({27390, 27394, 29777})

NextNmi == Poll \/ FetchNmi \/ DmaStall \/ OpTick

SpecNmi == InitNmi /\ [][NextNmi]_vars

(***************************************************************************)
(* Properties: ticks, VBlank and NMI                                       *)
(***************************************************************************)
PpuPos(c) == c.bus.ppu.scanline * 341 + c.bus.ppu.cycles
VBlank(c) == Contains(c.bus.ppu.status, VBLANK_STARTED)
GenerateNmi(c) == Contains(c.bus.ppu.ctrl, GENERATE_NMI)
\* the n of the Bus::tick(n) call a step at "dma" or "tick" makes
PendingTick == IF at = "dma" THEN 513 ELSE opcode.ins.cycles

\* C2: every call Bus::tick(n), the 513-cycle DMA stall included, advances
\* the PPU position scanline*341 + cycle by 3n modulo 262*341.
C2_TickAdvancesPpu ==
    [][(at \in {"dma", "tick"}) =>
          (PpuPos(cpu') = (PpuPos(cpu) + 3 * PendingTick) % (262 * 341))]_vars

\* C6: a tick that takes the PPU into scanline 241 sets VBlank; with
\* GENERATE_NMI set the NMI is in the Bus latch when that tick returns, and
\* the latch stays set until the loop top, where the NMI is serviced before
\* the next fetch; with GENERATE_NMI clear the entry raises no NMI.
C6_VBlankEntryNmi ==
    [][/\ (at \in {"dma", "tick"} /\ cpu.bus.ppu.scanline = 240
            /\ cpu'.bus.ppu.scanline = 241) =>
             /\ VBlank(cpu')
             /\ GenerateNmi(cpu) => cpu'.bus.nmi_interrupt
             /\ ~GenerateNmi(cpu) =>
                   /\ cpu'.bus.nmi_interrupt = cpu.bus.nmi_interrupt
                   /\ ~cpu'.bus.ppu.nmi_interrupt
       /\ (at = "tick" /\ cpu.bus.nmi_interrupt) =>
             (cpu'.bus.nmi_interrupt /\ at' = "poll")
       /\ (at = "poll" /\ cpu.bus.nmi_interrupt) =>
             /\ at' = "fetch"
             /\ cpu'.program_counter = Vector(cpu, 65530)
             /\ ~cpu'.bus.nmi_interrupt
       /\ at = "fetch" => ~cpu.bus.nmi_interrupt]_vars

\* the VBlank NMI was taken: scanline 241 was entered with GENERATE_NMI set
\* and the handler is the next instruction to be fetched
C6_Witness ==
    /\ at = "fetch"
    /\ cpu.bus.ppu.scanline = 241
    /\ opcode.ins.name = "STA" /\ opcode.ins.operand = 8192
    /\ ~Contains(opcode.before.status, VBLANK_STARTED)
    /\ VBlank(cpu) /\ GenerateNmi(cpu)
    /\ cpu.program_counter = Vector(cpu, 65530)
    /\ cpu.stack_pointer = 250

\* C7: an instruction that writes $2000 with bit 7 set while VBlank is set
\* and GENERATE_NMI is 0 has an NMI latched at the instruction boundary that
\* follows it (where the loop top services it), wherever in scanlines
\* 241..261 the write happens.
C7_CtrlWriteNmi ==
    (/\ at = "poll"
     /\ opcode.ins.name = "STA" /\ opcode.ins.operand = 8192
     /\ Contains(cpu.register_a, 128)
     /\ Contains(opcode.before.status, VBLANK_STARTED)
     /\ ~Contains(opcode.before.ctrl, GENERATE_NMI))
        => cpu.bus.nmi_interrupt

(***************************************************************************)
(* SpecPpu: the PPU registers driven through Bus::mem_read, Bus::mem_write *)
(* and Bus::tick, from just before VBlank (scanline 240), from scanline    *)
(* 260 and from the last scanline (261).                                   *)
(***************************************************************************)
\* mem_read of PPUSTATUS, of PPUDATA and of a mirror of PPUSTATUS (0x200A)
ReadPpu == BusRead({8194, 8199, 8202}, MaxOps)

\* mem_write of 0x2000..0x2007
WritePpu == BusWrite(8192..8199, {5, 161}, MaxOps)

\* a tick of 6 PPU cycles and one of a scanline and a cycle
TickPpu == BusTickStep({2, 114}, MaxOps)

InitPpu == InitAt({27390, 29660, 29777})

NextPpu == Poll \/ ReadPpu \/ WritePpu \/ TickPpu

SpecPpu == InitPpu /\ [][NextPpu]_vars

(***************************************************************************)
(* Properties: PPU registers                                               *)
(***************************************************************************)
\* this step is the host operation `name`
IsOp(name) == steps' = steps + 1 /\ opcode'.ins.name = name
\* this step calls mem_read / mem_write on a PPU register that mirrors `reg`
ReadsReg(reg) ==
    /\ IsOp("read")
    /\ opcode'.ins.operand \in 8192..16383
    /\ BitAndLow(opcode'.ins.operand, 13, 3) = reg
WritesReg(reg) ==
    /\ IsOp("write")
    /\ opcode'.ins.operand \in 8192..16383
    /\ BitAndLow(opcode'.ins.operand, 13, 3) = reg
\* the byte this step writes
Written == opcode'.ins.code
\* this step calls read_status()
CallsReadStatus == ReadsReg(8194)
\* this step is a call of Bus::tick
IsTick == IsOp("tick")

\* C8 as stated: in every step in which VBlank goes from set to clear, the
\* step calls read_status(); every other operation, tick included, leaves a
\* set VBlank flag set.
C8_OnlyReadStatusClearsVBlank ==
    [][(VBlank(cpu) /\ ~VBlank(cpu')) => CallsReadStatus]_vars

\* C8 amended: in every step in which VBlank goes from set to clear, the
\* step calls read_status() or is the tick that wraps the frame from
\* scanline 261 to scanline 0; register writes, PPUDATA accesses and ticks
\* that do not wrap the frame leave a set VBlank flag set.
C8_ReadStatusOrFrameWrapClearsVBlank ==
    [][(VBlank(cpu) /\ ~VBlank(cpu')) =>
          \/ CallsReadStatus
          \/ /\ IsTick
             /\ cpu.bus.ppu.scanline = 261
             /\ cpu'.bus.ppu.scanline = 0]_vars

\* a tick has wrapped the frame and cleared a set VBlank flag
C8_Witness ==
    /\ opcode.ins.name = "tick"
    /\ Contains(opcode.before.status, VBLANK_STARTED)
    /\ ~VBlank(cpu)
    /\ cpu.bus.ppu.scanline = 0

\* C9: a read of $2002 leaves both write latches at "first"; a PPUADDR write
\* at "first" sets the high byte of the address (14 bits kept) and one at
\* "second" the low byte, a PPUSCROLL write at "first" sets scroll X and one
\* at "second" scroll Y, each write toggling its own latch; no other
\* operation moves a latch.
C9_LatchResetAndAlternation ==
    [][LET a == cpu.bus.ppu.addr
           a2 == cpu'.bus.ppu.addr
           s == cpu.bus.ppu.scroll
           s2 == cpu'.bus.ppu.scroll
       IN  /\ CallsReadStatus => (a2.hi_ptr /\ ~s2.latch)
           /\ WritesReg(8198) =>
                /\ a2.hi_ptr = ~a.hi_ptr
                /\ s2.latch = s.latch
                /\ IF a.hi_ptr
                   THEN a2.hi = Written % 64 /\ a2.lo = a.lo
                   ELSE a2.lo = Written /\ a2.hi = a.hi
           /\ WritesReg(8197) =>
                /\ s2.latch = ~s.latch
                /\ a2.hi_ptr = a.hi_ptr
                /\ IF ~s.latch
                   THEN s2.scroll_x = Written /\ s2.scroll_y = s.scroll_y
                   ELSE s2.scroll_y = Written /\ s2.scroll_x = s.scroll_x
           /\ ~(CallsReadStatus \/ WritesReg(8198) \/ WritesReg(8197)) =>
                (a2.hi_ptr = a.hi_ptr /\ s2.latch = s.latch)]_vars

\* a PPUSCROLL write left its latch at "second", $2002 was read (it returned
\* VBlank), and the PPUADDR write that followed set the high byte
C9_Witness ==
    /\ steps = 3
    /\ ret = 128
    /\ opcode.ins.name = "write" /\ opcode.ins.operand = 8198 /\ opcode.ins.code = 161
    /\ cpu.bus.ppu.scroll.scroll_x = 5
    /\ ~cpu.bus.ppu.scroll.latch
    /\ cpu.bus.ppu.addr.hi = 33 /\ cpu.bus.ppu.addr.lo = 0
    /\ ~cpu.bus.ppu.addr.hi_ptr

(***************************************************************************)
(* SpecPpuData: PPUADDR and PPUDATA traffic from power-on: the address is  *)
(* set to a pattern-table, a nametable (0x20xx), a nametable-mirror        *)
(* (0x30xx) or a palette (0x3Fxx) address, bytes are written and read back *)
(* through $2007.                                                          *)
(***************************************************************************)
WriteAddrData == BusWrite({8198}, {0, 32, 48, 63}, MaxData)

WriteData == BusWrite({8199}, {65}, MaxData)

ReadDataOp == BusRead({8199}, MaxData)

InitData == InitAt({0})

NextData == Poll \/ WriteAddrData \/ WriteData \/ ReadDataOp

SpecPpuData == InitData /\ [][NextData]_vars

(***************************************************************************)
(* Properties: PPUDATA                                                     *)
(***************************************************************************)
\* the byte stored at PPU address a, for a below the palette (0x3F00)
PpuMemAt(p, a) ==
    IF a < 8192 THEN Rd(p.chr_rom, a)
    ELSE Rd(p.vram, MirrorVramAddr(p.mirroring, a))

\* C10: a PPUDATA read at a PPU address in 0x0000..0x3EFF returns the byte
\* that was in the internal read buffer before the read and leaves in the
\* buffer the byte stored at that address; a PPUDATA write at a nametable
\* address stores its byte there, where such a read finds it.
C10_BufferedRead ==
    [][LET p == cpu.bus.ppu
           p2 == cpu'.bus.ppu
           a == AddrGet(p.addr)
       IN  /\ (ReadsReg(8199) /\ a <= 16127) =>
                /\ ret' = p.internal_data_buf
                /\ p2.internal_data_buf = PpuMemAt(p, a)
           /\ (WritesReg(8199) /\ a >= 8192 /\ a <= 16127) =>
                /\ PpuMemAt(p2, a) = Written
                /\ p2.internal_data_buf = p.internal_data_buf]_vars

\* 0x41 was written to 0x2000, PPUADDR was set to 0x2000 again, the first
\* read returned the stale buffer and the second one, just done, 0x41
C10_Witness ==
    /\ steps = 7
    /\ opcode.ins.name = "read" /\ opcode.ins.operand = 8199
    /\ ret = 65
    /\ AddrGet(cpu.bus.ppu.addr) = 8194
    /\ PpuMemAt(cpu.bus.ppu, 8192) = 65
    /\ PpuMemAt(cpu.bus.ppu, 8193) = 0
    /\ cpu.bus.ppu.internal_data_buf = 0

\* C11: a PPUDATA read at a palette address 0x3F00..0x3FFF returns the
\* palette byte directly and leaves in the internal read buffer the
\* nametable byte stored at the address minus 0x1000.
C11_PaletteReadRefillsBuffer ==
    [][LET p == cpu.bus.ppu
           p2 == cpu'.bus.ppu
           a == AddrGet(p.addr)
       IN  (ReadsReg(8199) /\ a >= 16128) =>
                /\ ret' = Rd(p.palette_table, PaletteAddr(a))
                /\ p2.internal_data_buf = PpuMemAt(p, a - 4096)]_vars

(***************************************************************************)
(* SpecSprite: the program has enabled rendering (PPUMASK) and placed      *)
(* sprite 0 (OAMADDR, 4 x OAMDATA); the PPU is on scanline 0, 238 or 239   *)
(* and is ticked on from there in calls of different sizes.                *)
(***************************************************************************)
\* the mem_write calls of `writes`, a sequence of <<addr, data>>, in order
RECURSIVE WriteAll(_, _)
WriteAll(b, writes) ==
    IF writes = <<>> THEN b
    ELSE WriteAll(MemWrite(b, Head(writes)[1], Head(writes)[2]), Tail(writes))

\* PPUMASK := mask, OAMADDR := 0, then sprite 0 as Y, tile, attributes, X
SpriteWrites(mask, y, x) ==
    << <<8193, mask>>, <<8195, 0>>,
       <<8196, y>>, <<8196, 1>>, <<8196, 0>>, <<8196, x>> >>

\* starts at scanline 0 cycle 0, scanline 238 cycle 1 and scanline 239
\* cycle 2; masks with both layers and with the background only
InitSprite ==
    /\ \E rom \in Roms, k \in {0, 27053, 27167},
          mask \in {24, 8}, y \in {0, 238, 239}, x \in {5, 8} :
          cpu = [IdleCpu(rom, k) EXCEPT !.bus = WriteAll(@, SpriteWrites(mask, y, x))]
    /\ at = "poll"
    /\ opcode = NoOpcode
    /\ steps = 0
    /\ ret = 0

\* ticks of 3, 6 and 21 PPU cycles and of a scanline and a cycle
TickSprite == BusTickStep({1, 2, 7, 114}, MaxTicks)

NextSprite == Poll \/ TickSprite

SpecSprite == InitSprite /\ [][NextSprite]_vars

(***************************************************************************)
(* Properties: sprite-0 hit                                                *)
(***************************************************************************)
SpriteY(c) == Rd(c.bus.ppu.oam_data, 0)
SpriteX(c) == Rd(c.bus.ppu.oam_data, 3)
SpriteHit(c) == Contains(c.bus.ppu.status, SPRITE_0_HIT)
Rendering(c) ==
    /\ Contains(c.bus.ppu.mask, SHOW_BACKGROUND)
    /\ Contains(c.bus.ppu.mask, SHOW_SPRITES)

\* C12: on a visible scanline s with both layers enabled and Sprite-0-Hit
\* clear, sprite 0 at Y = s and X in 1..254: a tick that takes the PPU
\* cycle counter from before X to X or past it leaves Sprite-0-Hit set,
\* whatever its size.
C12_HitWhenCyclePassesX ==
    [][(/\ IsTick
        /\ cpu.bus.ppu.scanline < 240
        /\ Rendering(cpu) /\ ~SpriteHit(cpu)
        /\ SpriteY(cpu) = cpu.bus.ppu.scanline
        /\ SpriteX(cpu) \in 1..254
        /\ cpu.bus.ppu.cycles < SpriteX(cpu)
        /\ cpu.bus.ppu.cycles + 3 * opcode'.ins.cycles >= SpriteX(cpu))
          => SpriteHit(cpu')]_vars

\* C13: while sprite 0 has Y = 239 no tick sets Sprite-0-Hit.
C13_NoHitAtY239 ==
    [][(SpriteY(cpu) = 239 /\ ~SpriteHit(cpu)) => ~SpriteHit(cpu')]_vars

(***************************************************************************)
(* SpecFrame: the end of a frame.  The PPU is on scanline 260 or 261; the  *)
(* host writes PPUCTRL (a write with bit 7 set during VBlank leaves an NMI *)
(* pending in the PPU), restores APU snapshots and ticks the Bus.          *)
(***************************************************************************)
LoadStateFrame == HostLoadState(ApuStates, MaxOps)

WriteFrame == BusWrite({8192}, {128}, MaxOps)

\* ticks of 6 PPU cycles, of 21, and of a scanline and a cycle
TickFrame == BusTickStep({2, 7, 114}, MaxOps)

InitFrame == InitAt({29660, 29770, 29777})

NextFrame == Poll \/ LoadStateFrame \/ WriteFrame \/ TickFrame

SpecFrame == InitFrame /\ [][NextFrame]_vars

(***************************************************************************)
(* Properties: frame wrap                                                  *)
(***************************************************************************)
\* this step takes the scanline counter from 261 to 0
Wraps == cpu.bus.ppu.scanline = 261 /\ cpu'.bus.ppu.scanline = 0

\* C14: a step that wraps the scanline counter from 261 to 0 leaves VBlank,
\* Sprite-0-Hit, Sprite-Overflow and the PPU's pending NMI clear (no NMI is
\* latched by it) and invokes the frame callback once, handing it the Apu
\* with its frame interrupt not yet latched by the Bus; no other step
\* invokes the frame callback.
C14_FrameWrap ==
    [][/\ Wraps =>
             /\ ~Contains(cpu'.bus.ppu.status, VBLANK_STARTED)
             /\ ~Contains(cpu'.bus.ppu.status, SPRITE_0_HIT)
             /\ ~Contains(cpu'.bus.ppu.status, SPRITE_OVERFLOW)
             /\ ~cpu'.bus.ppu.nmi_interrupt
             /\ cpu'.bus.nmi_interrupt = cpu.bus.nmi_interrupt
             /\ cpu'.bus.gameloop_callback.calls = cpu.bus.gameloop_callback.calls + 1
             /\ cpu'.bus.irq_interrupt =
                    (cpu.bus.irq_interrupt \/ cpu'.bus.gameloop_callback.frame_interrupt)
       /\ ~Wraps =>
             cpu'.bus.gameloop_callback = cpu.bus.gameloop_callback]_vars

\* a tick has wrapped the frame with VBlank set, an NMI pending in the PPU
\* and a frame interrupt pending in the APU: the callback ran once and saw
\* the frame interrupt, the Bus has latched the IRQ and no NMI
C14_Witness ==
    /\ opcode.ins.name = "tick"
    /\ cpu.bus.ppu.scanline = 0
    /\ Contains(opcode.before.status, VBLANK_STARTED)
    /\ Contains(cpu.bus.ppu.ctrl, GENERATE_NMI)
    /\ cpu.bus.ppu.status = 0
    /\ cpu.bus.gameloop_callback = [calls |-> 1, frame_interrupt |-> TRUE]
    /\ cpu.bus.irq_interrupt
    /\ ~cpu.bus.nmi_interrupt

(***************************************************************************)
(* SpecDma: OAM DMA started by the host.  RAM page 2 and the OAM hold      *)
(* bytes written beforehand; the host sets OAMADDR and writes a page       *)
(* number to $4014: a RAM page, the page of the PPU registers (reading it  *)
(* has side effects) or the last page of the PRG ROM.                      *)
(***************************************************************************)
DmaWrites ==
    << <<512, 17>>, <<513, 34>>, <<767, 51>>,
       <<8195, 0>>, <<8196, 99>>, <<8196, 98>>, <<8195, 9>>, <<8196, 97>> >>

InitDma ==
    /\ \E rom \in Roms, k \in {0, 27400} :
          cpu = [IdleCpu(rom, k) EXCEPT !.bus = WriteAll(@, DmaWrites)]
    /\ at = "poll"
    /\ opcode = NoOpcode
    /\ steps = 0
    /\ ret = 0

WriteOamAddrDma == BusWrite({8195}, {0, 3, 254}, MaxOps)

WriteDma == BusWrite({16404}, {2, 32, 255}, MaxOps)

NextDma == Poll \/ WriteOamAddrDma \/ WriteDma \/ DmaStall

SpecDma == InitDma /\ [][NextDma]_vars

(***************************************************************************)
(* Properties: OAM DMA                                                     *)
(***************************************************************************)
\* the reads made so far (bytes `data`, Bus `bus`) and one more, at addr
ThenRead(sofar, r) == [data |-> Append(sofar.data, r.data), bus |-> r.bus]

\* n more successive mem_read calls, the first at addr
RECURSIVE ThenReads(_, _, _)
ThenReads(sofar, addr, n) ==
    IF n = 0 \/ Len(sofar.data) < 0 THEN sofar
    ELSE ThenReads(ThenRead(sofar, MemRead(sofar.bus, addr)), (addr + 1) % 65536, n - 1)

\* n more runs of 16 successive mem_read calls, the first at addr
RECURSIVE ThenRuns(_, _, _)
ThenRuns(sofar, addr, n) ==
    IF n = 0 \/ Len(sofar.data) < 0 THEN sofar
    ELSE ThenRuns(ThenReads(sofar, addr, 16), (addr + 16) % 65536, n - 1)

\* the 256 bytes that mem_read returns for page * 256, page * 256 + 1, ...
\* when called in that order
BusReturns(b, page) == ThenRuns([data |-> <<>>, bus |-> b], page * 256, 16).data

\* this step writes `Written` to $4014
WritesOamDma == IsOp("write") /\ opcode'.ins.operand = 16404

\* C15: a write of page p to $4014 with OAMADDR = a leaves in OAM cell
\* (a + i) mod 256, for every i in 0..255, the byte the bus returns for
\* address p * 256 + i (the reads being made in order), leaves OAMADDR = a
\* and changes neither VRAM nor the palette nor the CHR memory.
C15_OamDmaCopies ==
    [][WritesOamDma =>
          LET p == cpu.bus.ppu
              p2 == cpu'.bus.ppu
              data == BusReturns(cpu.bus, Written)
          IN  /\ \A i \in 0..255 :
                    Rd(p2.oam_data, (p.oam_addr + i) % 256) = data[i + 1]
              /\ p2.oam_addr = p.oam_addr
              /\ p2.vram = p.vram
              /\ p2.palette_table = p.palette_table
              /\ p2.chr_rom = p.chr_rom]_vars

\* RAM page 2 was copied with OAMADDR = 3: its first byte is in cell 3, its
\* last byte wrapped into cell 2, the bytes the OAM held before are gone
C15_Witness ==
    /\ at = "dma"
    /\ opcode.ins.operand = 16404
    /\ opcode.ins.code = 2
    /\ cpu.bus.ppu.oam_addr = 3
    /\ Rd(cpu.bus.ppu.oam_data, 3) = 17
    /\ Rd(cpu.bus.ppu.oam_data, 4) = 34
    /\ Rd(cpu.bus.ppu.oam_data, 2) = 51
    /\ Rd(cpu.bus.ppu.oam_data, 9) = 0

(***************************************************************************)
(* SpecStall: programs that start OAM DMA with STA $4014, from RAM page 2  *)
(* or from the last page of the PRG ROM, the memory being as in SpecDma.   *)
(***************************************************************************)
ProgramStall ==
    { Ins("NOP", "Implied", 0),
      Ins("LDA", "Immediate", 2), Ins("LDA", "Immediate", 255),
      Ins("STA", "Absolute", 16404) }

FetchStall == Fetch(ProgramStall, MaxInstr)

NextStall == Poll \/ FetchStall \/ DmaStall \/ OpTick

SpecStall == InitDma /\ [][NextStall]_vars

\* the instruction `o` is a store to $4014
OamDmaInstr(o) == o.ins.name = "STA" /\ o.ins.operand = 16404

\* this step ticks the Bus and the APU by n CPU cycles
Ticks(n) ==
    /\ cpu'.bus.cycles = cpu.bus.cycles + n
    /\ cpu'.bus.apu.cpu_cycle_counter = cpu.bus.apu.cpu_cycle_counter + n

\* C16: the match arm of an instruction that stores to $4014 writes all 256
\* OAM bytes and ticks nothing; the stall that follows ticks the Bus cycle
\* counter and the APU by 513 cycles and leaves the OAM as it is; the
\* instruction's own tick then adds the opcode's cycles, 513 + cycles in
\* all.
C16_DmaStall513 ==
    [][/\ (at = "fetch" /\ OamDmaInstr(opcode')) =>
             /\ at' = "dma"
             /\ Ticks(0)
             /\ cpu'.bus.apu = cpu.bus.apu
             /\ PpuPos(cpu') = PpuPos(cpu)
             /\ LET data == BusReturns(cpu.bus, cpu.register_a)
                IN  \A i \in 0..255 :
                      Rd(cpu'.bus.ppu.oam_data, (cpu.bus.ppu.oam_addr + i) % 256) =
                          data[i + 1]
       /\ (at = "dma") =>
             /\ at' = "tick"
             /\ Ticks(513)
             /\ cpu'.bus.ppu.oam_data = cpu.bus.ppu.oam_data
       /\ (at = "tick" /\ OamDmaInstr(opcode)) =>
             /\ at' = "poll"
             /\ Ticks(opcode.ins.cycles)]_vars

\* LDA #2 and STA $4014 have run from power-on: 2 + 4 + 513 cycles were
\* ticked and RAM page 2 is in the OAM, from OAMADDR = 10 on
C16_Witness ==
    /\ at = "poll"
    /\ OamDmaInstr(opcode)
    /\ cpu.register_a = 2
    /\ cpu.bus.cycles = 519
    /\ cpu.bus.apu.cpu_cycle_counter = 519
    /\ cpu.bus.ppu.oam_addr = 10
    /\ Rd(cpu.bus.ppu.oam_data, 10) = 17
    /\ Rd(cpu.bus.ppu.oam_data, 9) = 51

(***************************************************************************)
(* SpecLength: the length counters.  The four channels start disabled or   *)
(* enabled; the host loads lengths through $4003, $4007, $400B and $400F,  *)
(* writes and reads $4015 and ticks the Bus, over a half-frame event when  *)
(* the run starts shortly before cycle 14913.                              *)
(***************************************************************************)
InitLength ==
    /\ \E rom \in Roms, k \in {0, 14910}, enable \in {0, 15} :
          cpu = [IdleCpu(rom, k) EXCEPT !.bus = MemWrite(@, 16405, enable)]
    /\ at = "poll"
    /\ opcode = NoOpcode
    /\ steps = 0
    /\ ret = 0

\* data >> 3 is 1 (length 254) or 3 (length 2)
WriteLength == BusWrite({16387, 16391, 16395, 16399}, {8, 24}, MaxOps)

WriteStatus == BusWrite({16405}, {0, 5, 10, 15}, MaxOps)

ReadStatusApu == BusRead({16405}, MaxOps)

TickLength == BusTickStep({7}, MaxOps)

NextLength == Poll \/ WriteLength \/ WriteStatus \/ ReadStatusApu \/ TickLength

SpecLength == InitLength /\ [][NextLength]_vars

(***************************************************************************)
(* Properties: APU status register                                         *)
(***************************************************************************)
\* the length counters of pulse 1, pulse 2, triangle and noise, in the
\* order of their bits in $4015
Lengths(c) ==
    << c.bus.apu.pulse1.length_counter, c.bus.apu.pulse2.length_counter,
       c.bus.apu.triangle.length_counter, c.bus.apu.noise.length_counter >>

\* C17: a write to $4015 zeroes the length counter of each of the four
\* channels whose bit is 0 in the written value and leaves the length
\* counter of each channel whose bit is 1 as it was; a read of $4015 returns
\* for each channel bit 1 exactly when its length counter is not 0, so a
\* read that directly follows a write with the bit clear returns the bit as
\* 0.
C17_StatusWriteZeroesLength ==
    [][\A n \in 1..4 :
         /\ (IsOp("write") /\ opcode'.ins.operand = 16405) =>
               Lengths(cpu')[n] = IF Bit(Written, n - 1) = 0 THEN 0 ELSE Lengths(cpu)[n]
         /\ (IsOp("read") /\ opcode'.ins.operand = 16405) =>
               /\ Bit(ret', n - 1) = IF Lengths(cpu)[n] > 0 THEN 1 ELSE 0
               /\ (/\ opcode.ins.name = "write" /\ opcode.ins.operand = 16405
                   /\ Bit(opcode.ins.code, n - 1) = 0) => Bit(ret', n - 1) = 0]_vars

\* $4015 was written with 0x0A after lengths were loaded into pulse 2 and
\* noise: the two keep their lengths, pulse 1 and triangle are at 0
C17_Witness ==
    /\ opcode.ins.name = "write"
    /\ opcode.ins.operand = 16405
    /\ opcode.ins.code = 10
    /\ Lengths(cpu) = <<0, 254, 0, 2>>

(***************************************************************************)
(* SpecFrameCounter: writes to $4017.  The channels are enabled, pulse 1   *)
(* and noise hold length 2 (noise halted), the triangle length 254 with a  *)
(* linear-counter reload of 5 pending.  The host writes $4017, restores    *)
(* snapshots that put the frame counter shortly before cycle 29781 or      *)
(* 37281 (those of 4-step mode with or without a pending frame interrupt)  *)
(* and ticks the Bus.                                                      *)
(***************************************************************************)
CounterWrites ==
    << <<16405, 15>>, <<16387, 24>>, <<16392, 5>>, <<16395, 8>>,
       <<16396, 32>>, <<16399, 24>> >>

InitFrameCounter ==
    /\ \E rom \in Roms :
          cpu = [IdleCpu(rom, 0) EXCEPT !.bus = WriteAll(@, CounterWrites)]
    /\ at = "poll"
    /\ opcode = NoOpcode
    /\ steps = 0
    /\ ret = 0

\* save_state of the APU as it is, but for the frame counter; the snapshots
\* taken in 5-step mode hold no pending frame interrupt
CounterStates ==
    { [cpu.bus.apu EXCEPT !.frame_counter_cycle = c,
                          !.frame_counter_mode = mf[1],
                          !.frame_interrupt = mf[2]] :
        c \in {29775, 37275}, mf \in {<<0, FALSE>>, <<0, TRUE>>, <<1, FALSE>>} }

LoadStateCounter == HostLoadState(CounterStates, MaxOps)

WriteFrameCounter == BusWrite({16407}, {0, 64, 128, 192}, MaxOps)

TickCounter == BusTickStep({7}, MaxOps)

NextFrameCounter == Poll \/ LoadStateCounter \/ WriteFrameCounter \/ TickCounter

SpecFrameCounter == InitFrameCounter /\ [][NextFrameCounter]_vars

(***************************************************************************)
(* Properties: $4017                                                       *)
(***************************************************************************)
\* the halt flags, in the order of Lengths
Halts(c) ==
    << c.bus.apu.pulse1.length_counter_halt, c.bus.apu.pulse2.length_counter_halt,
       c.bus.apu.triangle.length_counter_halt, c.bus.apu.noise.length_counter_halt >>

GenieCodes ==
    { [address |-> 65533, new_data |-> 7, compare_data |-> <<>>],
      [address |-> 65533, new_data |-> 9, compare_data |-> <<128>>],
      [address |-> 65533, new_data |-> 11, compare_data |-> <<1>>],
      [address |-> 49149, new_data |-> 13, compare_data |-> <<>>] }

GenieLists ==
    {<<>>} \cup { <<c>> : c \in GenieCodes }
           \cup { <<c, d>> : c \in GenieCodes, d \in GenieCodes }

\* EmulatorCommand::SetGameGenieCodes, taken at the loop top
SetCodes ==
    /\ at = "fetch"
    /\ steps < MaxOps
    /\ \E codes \in GenieLists :
         cpu' = [cpu EXCEPT !.bus = SetGameGenieCodes(@, codes)]
    /\ opcode' = [NoOpcode EXCEPT !.ins.name = "set_codes", !.before = Before]
    /\ steps' = steps + 1
    /\ UNCHANGED <<at, ret>>

ReadPrg == BusRead({49149, 65532, 65533}, MaxOps)

NextGenie == Poll \/ SetCodes \/ ReadPrg

InitGenie == InitAt({0})

SpecGenie == InitGenie /\ [][NextGenie]_vars

(***************************************************************************)
(* Properties: Game Genie                                                  *)
(***************************************************************************)
\* the positions in the code list of the codes with address a
CodesAt(c, a) ==
    { i \in DOMAIN c.bus.game_genie_codes : c.bus.game_genie_codes[i].address = a }

\* the first code in list order with address a
FirstCodeAt(c, a) ==
    c.bus.game_genie_codes[CHOOSE i \in CodesAt(c, a) : \A j \in CodesAt(c, a) : i <= j]

\* C19: a read of a PRG address a returns the raw PRG byte when no code has
\* address a; otherwise the first code in list order with address a
\* decides: its new_data when it has no compare_data or its compare_data
\* is the raw byte, else the raw byte.  No step changes the stored PRG
\* bytes.
C19_GameGenieRead ==
    [][/\ cpu'.bus.rom = cpu.bus.rom
       /\ (IsOp("read") /\ opcode'.ins.operand >= 32768) =>
             LET a == opcode'.ins.operand
                 raw == ReadPrgRomRaw(cpu.bus, a)
             IN  ret' = CASE CodesAt(cpu, a) = {} -> raw
                          [] FirstCodeAt(cpu, a).compare_data \in {<<>>, <<raw>>} ->
                               FirstCodeAt(cpu, a).new_data
                          [] OTHER -> raw]_vars

\* 0xFFFD of the 16 KiB image was read with two codes on it, the first with
\* a compare byte that does not match, the second unconditional: the read
\* returned the raw byte 0x80
C19_Witness ==
    /\ opcode.ins.name = "read"
    /\ opcode.ins.operand = 65533
    /\ cpu.bus.rom.prg_len = 16384
    /\ cpu.bus.game_genie_codes =
          << [address |-> 65533, new_data |-> 11, compare_data |-> <<1>>],
             [address |-> 65533, new_data |-> 7, compare_data |-> <<>>] >>
    /\ ret = 128

(***************************************************************************)
(* SpecMirror: nametable mirroring.  The cartridge is Horizontal, Vertical *)
(* or four-screen; mirror_vram_addr is applied to addresses of the four    *)
(* nametables and of their mirrors at 0x3000..0x3EFF, the renderer's page  *)
(* choice to the four nametables.                                          *)
(***************************************************************************)
MirrorRoms == Roms \cup { RomImage(16384, "FOURSCREEN", 36864, 32768, 40960, 90) }

\* the first, second, 512th and 768th byte of each nametable and mirror
MirrorAddrs == { 8192 + 1024 * n + o : n \in 0..7, o \in {0, 1, 511, 767} }

InitMirror ==
    /\ \E rom \in MirrorRoms : cpu = IdleCpu(rom, 0)
    /\ at = "poll"
    /\ opcode = NoOpcode
    /\ steps = 0
    /\ ret = 0

\* ret is mirror_vram_addr(addr)
MirrorStep ==
    /\ at = "fetch"
    /\ steps < MaxOps
    /\ \E addr \in MirrorAddrs :
         /\ ret' = MirrorVramAddr(cpu.bus.ppu.mirroring, addr)
         /\ opcode' = [NoOpcode EXCEPT !.ins.name = "mirror", !.ins.operand = addr,
                                       !.before = Before]
    /\ steps' = steps + 1
    /\ UNCHANGED <<cpu, at>>

\* ret is the renderer's page_idx for nametable_idx
RenderStep ==
    /\ at = "fetch"
    /\ steps < MaxOps
    /\ \E nametable_idx \in 0..3 :
         /\ ret' = RenderPageIdx(cpu.bus.ppu.mirroring, nametable_idx)
         /\ opcode' = [NoOpcode EXCEPT !.ins.name = "page",
                                       !.ins.operand = nametable_idx,
                                       !.before = Before]
    /\ steps' = steps + 1
    /\ UNCHANGED <<cpu, at>>

NextMirror == Poll \/ MirrorStep \/ RenderStep

SpecMirror == InitMirror /\ [][NextMirror]_vars

(***************************************************************************)
(* Properties: mirroring                                                   *)
(***************************************************************************)
\* the physical page the claim names for a logical nametable
ClaimedPage(mirroring, nametable) ==
    CASE mirroring = "HORIZONTAL" -> IF nametable \in {0, 1} THEN 0 ELSE 1
      [] mirroring = "VERTICAL" -> IF nametable \in {0, 2} THEN 0 ELSE 1

\* C20: mirror_vram_addr maps an address of logical nametable n (at
\* 0x2000 + 0x400 * n, or 0x1000 higher) to the same offset in the page
\* that the renderer uses for nametable n, whatever the mirroring mode;
\* under Horizontal mirroring that page is 0 for nametables 0 and 1 and 1
\* for 2 and 3, under Vertical mirroring 0 for 0 and 2 and 1 for 1 and 3,
\* in mirror_vram_addr and in the renderer.
C20_SameMirroring ==
    [][LET mirroring == cpu.bus.ppu.mirroring
           addr == opcode'.ins.operand
           nametable == ((addr - 8192) % 4096) \div 1024
       IN  /\ IsOp("mirror") =>
                 /\ ret' \div 1024 = RenderPageIdx(mirroring, nametable)
                 /\ ret' % 1024 = addr % 1024
                 /\ mirroring # "FOURSCREEN" =>
                       ret' \div 1024 = ClaimedPage(mirroring, nametable)
           /\ (IsOp("page") /\ mirroring # "FOURSCREEN") =>
                 ret' = ClaimedPage(mirroring, opcode'.ins.operand)]_vars

\* mirror_vram_addr was applied to 0x3DFF, in the mirror of nametable 3, on
\* a Horizontal cartridge: offset 0x1FF of page 1
C20_Witness ==
    /\ opcode.ins.name = "mirror"
    /\ opcode.ins.operand = 15871
    /\ cpu.bus.ppu.mirroring = "HORIZONTAL"
    /\ ret = 1024 + 511

(***************************************************************************)
(* SpecJmp: indirect jumps through pointers in RAM page 2, one of them at  *)
(* the last byte of the page.  RAM holds 0x11, 0x22 at 0x0200, 0x0201,     *)
(* 0x33 at 0x02FF and 0x44 at 0x0300.                                      *)
(***************************************************************************)
JmpWrites == << <<512, 17>>, <<513, 34>>, <<767, 51>>, <<768, 68>> >>

InitJmp ==
    /\ \E rom \in Roms :
          cpu = [IdleCpu(rom, 0) EXCEPT !.bus = WriteAll(@, JmpWrites)]
    /\ at = "poll"
    /\ opcode = NoOpcode
    /\ steps = 0
    /\ ret = 0

ProgramJmp ==
    { Ins("NOP", "Implied", 0), Ins("JMP", "Absolute", 768),
      Ins("JMP", "Indirect", 512), Ins("JMP", "Indirect", 513),
      Ins("JMP", "Indirect", 767) }

FetchJmp == Fetch(ProgramJmp, MaxInstr)

NextJmp == Poll \/ FetchJmp \/ OpTick

SpecJmp == InitJmp /\ [][NextJmp]_vars

(***************************************************************************)
(* Properties: indirect JMP                                                *)
(***************************************************************************)
\* the RAM byte at addr
Ram(c, addr) == Rd(c.bus.cpu_vram, addr % 2048)

\* C21: an indirect JMP through a pointer in RAM takes the low byte of its
\* target from the pointer and the high byte from the first byte of the
\* pointer's page when the pointer's low byte is 0xFF, from pointer + 1
\* otherwise.
C21_IndirectJmp ==
    [][(/\ at = "fetch" /\ opcode'.ins.name = "JMP" /\ opcode'.ins.mode = "Indirect") =>
          LET ptr == opcode'.ins.operand
              hi == IF ptr % 256 = 255 THEN ptr - 255 ELSE ptr + 1
          IN  /\ opcode'.target = 256 * Ram(cpu, hi) + Ram(cpu, ptr)
              /\ cpu'.program_counter = opcode'.target]_vars

\* JMP ($02FF) has run: the program counter is 0x1133, the high byte taken
\* from 0x0200 and not from 0x0300
C21_Witness ==
    /\ at = "poll"
    /\ opcode.ins.name = "JMP"
    /\ opcode.ins.mode = "Indirect"
    /\ opcode.ins.operand = 767
    /\ Ram(cpu, 768) = 68
    /\ cpu.program_counter = 4403

(***************************************************************************)
(* SpecAlu: ADC and SBC.  The accumulator holds any byte, the carry flag   *)
(* is clear or set, and the RAM byte at 0x0010 that the instructions add   *)
(* or subtract is any byte.                                                *)
(***************************************************************************)
InitAlu ==
    /\ \E a \in 0..255, m \in 0..255, carry \in BOOLEAN :
          cpu = SetFlag([IdleCpu(RomImage(16384, "HORIZONTAL", 36864, 32768, 40960, 90), 0)
                            EXCEPT !.register_a = a,
                                   !.bus = MemWrite(@, 16, m)],
                        CARRY_FLAG, carry)
    /\ at = "poll"
    /\ opcode = NoOpcode
    /\ steps = 0
    /\ ret = 0

ProgramAlu == { Ins("ADC", "Absolute", 16), Ins("SBC", "Absolute", 16) }

FetchAlu == Fetch(ProgramAlu, MaxAlu)

NextAlu == Poll \/ FetchAlu \/ OpTick

SpecAlu == InitAlu /\ [][NextAlu]_vars

(***************************************************************************)
(* Properties: ADC and SBC                                                 *)
(***************************************************************************)
\* the flag as 0 or 1
FlagBit(c, flag) == IF GetFlag(c, flag) THEN 1 ELSE 0

\* bit 7 of a byte
Sign(b) == b \div 128

\* c2 is what the claim says ADC leaves from accumulator a, operand m and
\* carry-in cin
IsSum(c2, a, m, cin) ==
    /\ c2.register_a = (a + m + cin) % 256
    /\ GetFlag(c2, CARRY_FLAG) = (a + m + cin > 255)
    /\ GetFlag(c2, OVERFLOW_FLAG) = (Sign(a) = Sign(m) /\ Sign(c2.register_a) # Sign(a))
    /\ GetFlag(c2, ZERO_FLAG) = (c2.register_a = 0)
    /\ GetFlag(c2, NEGATIVE_FLAG) = (Sign(c2.register_a) = 1)

\* C22: ADC of the memory byte M leaves A' = (A + M + c) mod 256, C set
\* exactly on a sum above 255, V set exactly when A and M have one sign and
\* A' the other, Z and N from A'; SBC of M leaves what ADC of 255 - M
\* leaves, which is A' = (A - M - (1 - c)) mod 256 with C set exactly when
\* there is no borrow.
C22_AdcSbc ==
    [][LET a == cpu.register_a
           m == Ram(cpu, 16)
           cin == FlagBit(cpu, CARRY_FLAG)
       IN  /\ (at = "fetch" /\ opcode'.ins.name = "ADC") => IsSum(cpu', a, m, cin)
           /\ (at = "fetch" /\ opcode'.ins.name = "SBC") =>
                 /\ IsSum(cpu', a, 255 - m, cin)
                 /\ cpu'.register_a = (a + 512 - m - (1 - cin)) % 256
                 /\ GetFlag(cpu', CARRY_FLAG) = (a - m - (1 - cin) >= 0)]_vars

\* ADC has added 0x50 to 0x50 with the carry clear: 0xA0 with V and N set,
\* C and Z clear
C22_Witness ==
    /\ at = "tick"
    /\ opcode.ins.name = "ADC"
    /\ Ram(cpu, 16) = 80
    /\ cpu.register_a = 160
    /\ GetFlag(cpu, OVERFLOW_FLAG)
    /\ GetFlag(cpu, NEGATIVE_FLAG)
    /\ ~GetFlag(cpu, CARRY_FLAG)
    /\ ~GetFlag(cpu, ZERO_FLAG)

(***************************************************************************)
(* SpecPad: the joypads.  The host presses and releases A, Start and Right *)
(* on joypad 1, the program side writes 1 and 0 to $4016 and reads $4016   *)
(* and $4017, long enough for a strobe and nine reads.                     *)
(***************************************************************************)
ButtonPad == HostButton({1, 8, 128}, MaxPad)

WritePad == BusWrite({16406}, {0, 1}, MaxPad)

ReadPad == BusRead({16406, 16407}, MaxPad)

InitPad == InitAt({0})

NextPad == Poll \/ ButtonPad \/ WritePad \/ ReadPad

SpecPad == InitPad /\ [][NextPad]_vars

(***************************************************************************)
(* Properties: joypads                                                     *)
(***************************************************************************)
\* the joypad that a read of addr shifts
PadAt(c, addr) == IF addr = 16406 THEN c.bus.joypad1 ELSE c.bus.joypad2

\* this step reads $4016 or $4017
ReadsPad == IsOp("read") /\ opcode'.ins.operand \in {16406, 16407}

\* C23: a write to $4016 sets the strobe of both joypads to bit 0 of the
\* byte and, when that bit is 1, their shift index to 0; a read with the
\* strobe clear returns 0x40 + bit i of the button byte and moves the index
\* i to i + 1 while i < 8 (bit 0 is A, ..., bit 7 is Right) and returns 0x41
\* once i = 8; a read with the strobe set returns 0x40 + the A bit and
\* leaves the index; the index never exceeds 8.
C23_JoypadShift ==
    [][/\ (IsOp("write") /\ opcode'.ins.operand = 16406) =>
             \A addr \in {16406, 16407} :
                /\ PadAt(cpu', addr).strobe = (Written % 2 = 1)
                /\ PadAt(cpu', addr).button_index =
                      IF Written % 2 = 1 THEN 0 ELSE PadAt(cpu, addr).button_index
       /\ ReadsPad =>
             LET j == PadAt(cpu, opcode'.ins.operand)
                 j2 == PadAt(cpu', opcode'.ins.operand)
             IN  CASE j.strobe ->
                        /\ ret' = 64 + Bit(j.button_status, 0)
                        /\ j2.button_index = j.button_index
                   [] j.button_index < 8 ->
                        /\ ret' = 64 + Bit(j.button_status, j.button_index)
                        /\ j2.button_index = j.button_index + 1
                   [] OTHER ->
                        /\ ret' = 65
                        /\ j2.button_index = j.button_index
       /\ cpu'.bus.joypad1.button_index <= 8
       /\ cpu'.bus.joypad2.button_index <= 8]_vars

\* with Right held, $4016 was written 1 then 0 and read nine times: the
\* ninth read returned 0x41 and the index stands at 8
C23_Witness ==
    /\ steps = 11
    /\ opcode.ins.name = "read"
    /\ opcode.ins.operand = 16406
    /\ cpu.bus.joypad1.button_status = 128
    /\ cpu.bus.joypad1.strobed = 128
    /\ ~cpu.bus.joypad1.strobe
    /\ cpu.bus.joypad1.button_index = 8
    /\ ret = 65

\* C24: a read of one of the eight bits after a strobe returns the bit as
\* the button byte had it when the strobe was written, also when the host
\* changed the button state in between.
C24_ReadsStrobedState ==
    [][(ReadsPad /\ ~PadAt(cpu, opcode'.ins.operand).strobe
                /\ PadAt(cpu, opcode'.ins.operand).strobed >= 0
                /\ PadAt(cpu, opcode'.ins.operand).button_index < 8) =>
          ret' = 64 + Bit(PadAt(cpu, opcode'.ins.operand).strobed,
                          PadAt(cpu, opcode'.ins.operand).button_index)]_vars

(***************************************************************************)
(* SpecStop: the run loop with a host that may signal stop at any          *)
(* instruction boundary.                                                   *)
(***************************************************************************)
StopStep == HostStop(MaxInstr)

FetchStop == Fetch(ProgramCpu, MaxInstr)

InitStop == InitAt({27390})

NextStop == Poll \/ StopStep \/ FetchStop \/ OpTick

SpecStop == InitStop /\ [][NextStop]_vars

\* C25: once the callback has signalled stop at an instruction boundary the
\* loop is over: registers, RAM, PPU and APU stay as they were at that
\* boundary and no further instruction is executed.
C25_StopReturns ==
    [][opcode.ins.name = "stop" => (cpu' = cpu /\ ~IsInstruction')]_vars

(***************************************************************************)
(* SpecLoad: the emulator thread loads a file and runs a few instructions. *)
(* The files have a good or a bad tag, one or two PRG pages, one CHR page, *)
(* flag bytes with mirroring, trainer, mapper and version bits, and are    *)
(* whole or one byte short.                                                *)
(***************************************************************************)
\* a file with the given header whose PRG data ends with the reset vector
RawImage(tag, prg_pages, flags6, flags7, missing) ==
    LET prg_end == 16 + (IF Bit(flags6, 2) = 1 THEN 512 ELSE 0)
                      + prg_pages * PRG_ROM_PAGE_SIZE
        cells == ( 0 :> tag[1] ) @@ ( 1 :> tag[2] ) @@ ( 2 :> tag[3] ) @@ ( 3 :> tag[4] )
                 @@ ( 4 :> prg_pages ) @@ ( 5 :> 1 ) @@ ( 6 :> flags6 ) @@ ( 7 :> flags7 )
                 @@ ( (prg_end - 3) :> 128 ) @@ ( prg_end :> 90 )
    IN  [len |-> prg_end + CHR_ROM_PAGE_SIZE - missing,
         bytes |-> [a \in { x \in DOMAIN cells : cells[x] # 0 } |-> cells[a]]]

Images ==
    { RawImage(tag, prg_pages, flags6, flags7, missing) :
        tag \in {NES_TAG, <<78, 69, 83, 0>>}, prg_pages \in {1, 2},
        flags6 \in {0, 1, 4, 8, 16}, flags7 \in {0, 4, 8, 16}, missing \in {0, 1} }

\* the file holds all the bytes its header announces
Complete(raw) ==
    raw.len >= 16 + (IF Bit(Rd(raw.bytes, 6), 2) = 1 THEN 512 ELSE 0)
                  + Rd(raw.bytes, 4) * PRG_ROM_PAGE_SIZE
                  + Rd(raw.bytes, 5) * CHR_ROM_PAGE_SIZE

LoadImage == LoadRom(Images)

ProgramLoaded == { Ins("NOP", "Implied", 0), Ins("LDA", "Immediate", 128) }

FetchLoaded == Fetch(ProgramLoaded, MaxInstr)

InitLoad ==
    /\ cpu = NoCpu
    /\ at = "load"
    /\ opcode = NoOpcode
    /\ steps = 0
    /\ ret = 0

NextLoad == LoadImage \/ Poll \/ FetchLoaded \/ OpTick

SpecLoad == InitLoad /\ [][NextLoad]_vars

\* C26: loading a whole file ends with an error value and without a
\* machine when the tag is wrong, the version bits are not 0 or the mapper
\* id is not 0, and with a machine in every other case.
C26_LoadRejects ==
    [][IsOp("load_rom") =>
          LET raw == opcode'.ins.operand
              bad == \/ [i \in 1..4 |-> Rd(raw.bytes, i - 1)] # NES_TAG
                     \/ RomInesVer(raw) # 0
                     \/ RomMapper(raw) # 0
          IN  Complete(raw) =>
                 /\ bad => (ret' = "Err" /\ cpu' = NoCpu)
                 /\ ~bad => (ret' = "Ok" /\ cpu' # NoCpu)]_vars

(***************************************************************************)
(* gamegenie.rs.  A string is a sequence of characters; a character is     *)
(* named by a string: "G", "g", "1", and "sharp_s", "dotless_i", "long_s", *)
(* "e_acute", "E_ACUTE" for U+00DF, U+0131, U+017F, U+00E9, U+00C9.        *)
(***************************************************************************)
\* bitwise | of two u16
Or16(a, b) ==
    LET x(i) == (IF Bit(a, i) + Bit(b, i) > 0 THEN 1 ELSE 0) * (2 ^ i)
    IN  x(0) + x(1) + x(2) + x(3) + x(4) + x(5) + x(6) + x(7)
        + x(8) + x(9) + x(10) + x(11) + x(12) + x(13) + x(14) + x(15)

\* decode_gg_char: the nybble, or -1 for None
DecodeGgChar(c) ==
    CASE c = "A" -> 0 [] c = "P" -> 1 [] c = "Z" -> 2 [] c = "L" -> 3
      [] c = "G" -> 4 [] c = "I" -> 5 [] c = "T" -> 6 [] c = "Y" -> 7
      [] c = "E" -> 8 [] c = "O" -> 9 [] c = "X" -> 10 [] c = "U" -> 11
      [] c = "K" -> 12 [] c = "S" -> 13 [] c = "V" -> 14 [] c = "N" -> 15
      [] OTHER -> -1

\* char::to_uppercase: the characters a character is replaced by
CharToUppercase(c) ==
    CASE c = "g" -> <<"G">> [] c = "s" -> <<"S">> [] c = "b" -> <<"B">>
      [] c = "sharp_s" -> <<"S", "S">>
      [] c = "dotless_i" -> <<"I">>
      [] c = "long_s" -> <<"S">>
      [] c = "e_acute" -> <<"E_ACUTE">>
      [] OTHER -> <<c>>

\* the bytes of a character in UTF-8
Utf8Len(c) ==
    IF c \in {"sharp_s", "dotless_i", "long_s", "e_acute", "E_ACUTE"} THEN 2 ELSE 1

\* str::to_uppercase
RECURSIVE ToUppercase(_)
ToUppercase(code) ==
    IF code = <<>> THEN <<>> ELSE CharToUppercase(Head(code)) \o ToUppercase(Tail(code))

\* str::len: the length in bytes
RECURSIVE StrLen(_)
StrLen(code) == IF code = <<>> THEN 0 ELSE Utf8Len(Head(code)) + StrLen(Tail(code))

\* parse_game_genie_code: Ok(GameGenieCode) or Err(String)
ParseGameGenieCode(input) ==
    LET code == ToUppercase(input)
        len == StrLen(code)
        n == [i \in 0..(Len(code) - 1) |-> DecodeGgChar(code[i + 1])]
    IN  CASE len # 6 /\ len # 8 ->
               [kind |-> "Err", value |-> "Code must be 6 or 8 letters long."]
          [] \E i \in DOMAIN n : n[i] = -1 ->
               [kind |-> "Err", value |-> "Code contains invalid letters."]
          [] OTHER ->
               [kind |-> "Ok",
                value |->
                  [address |->
                     Or16(Or16(Or16(Or16(32768, (n[3] % 8) * 4096),
                                    Or16((n[5] % 8) * 256, ((n[4] \div 8) * 8) * 256)),
                               Or16((n[2] % 8) * 16, ((n[1] \div 8) * 8) * 16)),
                          Or16(n[4] % 8, (n[3] \div 8) * 8)),
                   new_data |->
                     Or16(Or16((n[1] % 8) * 16, ((n[0] \div 8) * 8) * 16),
                          Or16(n[0] % 8, (n[IF len = 8 THEN 7 ELSE 5] \div 8) * 8)),
                   compare_data |->
                     IF len = 8
                     THEN << Or16(Or16((n[7] % 8) * 16, ((n[6] \div 8) * 8) * 16),
                                  Or16(n[6] % 8, (n[5] \div 8) * 8)) >>
                     ELSE <<>>]]

\* the code typed by the user is parsed
ParseCode ==
    /\ at = "parse"
    /\ ret' = ParseGameGenieCode(opcode.ins.operand)
    /\ opcode' = [opcode EXCEPT !.ins.name = "parse"]
    /\ at' = "parsed"
    /\ steps' = steps + 1
    /\ UNCHANGED cpu

(***************************************************************************)
(* SpecParse: one code is typed and parsed.  The codes are all strings of  *)
(* 6 and 8 letters out of A, I, X, N (nybbles 0, 5, 10, 15), the codes of  *)
(* the unit tests, their prefixes, these with one more letter, and all of  *)
(* these with one character replaced by a lower-case letter, a letter or   *)
(* digit that is no Game Genie letter, or a character outside ASCII.       *)
(***************************************************************************)
GOSSIP == <<"G", "O", "S", "S", "I", "P">>
ZEXPYGLA == <<"Z", "E", "X", "P", "Y", "G", "L", "A">>
SXXIGPVT == <<"S", "X", "X", "I", "G", "P", "V", "T">>

Lengths6And8 ==
    UNION { [1..k -> {"A", "I", "X", "N"}] : k \in {6, 8} }

OtherLengths ==
    UNION { { SubSeq(b, 1, k) : k \in 0..Len(b) } : b \in {GOSSIP, ZEXPYGLA, SXXIGPVT} }
        \cup { b \o <<"A">> : b \in {GOSSIP, ZEXPYGLA, SXXIGPVT} }

OtherLetters ==
    UNION { { [b EXCEPT ![i] = c] :
                i \in 1..Len(b),
                c \in {"g", "s", "b", "B", "1", "sharp_s", "dotless_i", "long_s",
                       "e_acute"} } : b \in OtherLengths }

TypedCodes ==
    Lengths6And8 \cup OtherLengths \cup OtherLetters

InitParse ==
    /\ cpu = NoCpu
    /\ at = "parse"
    /\ \E code \in TypedCodes : opcode = [NoOpcode EXCEPT !.ins.operand = code]
    /\ steps = 0
    /\ ret = 0

NextParse == ParseCode

SpecParse == InitParse /\ [][NextParse]_vars

\* a Game Genie letter, in either case
IsGgLetter(c) == Len(CharToUppercase(c)) = 1 /\ Utf8Len(c) = 1
                 /\ DecodeGgChar(CharToUppercase(c)[1]) >= 0

\* nybble i (from 0) of a string of Game Genie letters
Nybble(code, i) == DecodeGgChar(CharToUppercase(code[i + 1])[1])

\* C27: a string of 6 or 8 Game Genie letters is parsed into the address,
\* new_data and compare_data given by the bit formulas (the address lies
\* in 0x8000..0xFFFF), GOSSIP, ZEXPYGLA and SXXIGPVT give D1DD/14,
\* 94A7/02/03 and D1A4/A5/E6, and every other string is rejected.
C27_ParseGameGenie ==
    [][IsOp("parse") =>
          LET code == opcode'.ins.operand
              n(i) == Nybble(code, i)
              k == IF Len(code) = 8 THEN 7 ELSE 5
          IN  IF Len(code) \in {6, 8} /\ \A i \in 1..Len(code) : IsGgLetter(code[i])
              THEN /\ ret'.kind = "Ok"
                   /\ ret'.value.address =
                        32768 + (n(3) % 8) * 4096 + (n(5) % 8) * 256 + (n(4) \div 8) * 2048
                        + (n(2) % 8) * 16 + (n(1) \div 8) * 128 + (n(4) % 8)
                        + (n(3) \div 8) * 8
                   /\ ret'.value.address \in 32768..65535
                   /\ ret'.value.new_data =
                        (n(1) % 8) * 16 + (n(0) \div 8) * 128 + (n(0) % 8) + (n(k) \div 8) * 8
                   /\ ret'.value.compare_data =
                        IF Len(code) = 8
                        THEN << (n(7) % 8) * 16 + (n(6) \div 8) * 128 + (n(6) % 8)
                                + (n(5) \div 8) * 8 >>
                        ELSE <<>>
                   /\ code = GOSSIP => ret'.value =
                        [address |-> 53725, new_data |-> 20, compare_data |-> <<>>]
                   /\ code = ZEXPYGLA => ret'.value =
                        [address |-> 38055, new_data |-> 2, compare_data |-> <<3>>]
                   /\ code = SXXIGPVT => ret'.value =
                        [address |-> 53668, new_data |-> 165, compare_data |-> <<230>>]
              ELSE ret'.kind = "Err"]_vars

(***************************************************************************)
(* Properties: the cost of an NMI                                          *)
(***************************************************************************)
\* C28: from the instruction boundary at which an NMI is taken to the
\* fetch of the handler's first opcode the Bus cycle counter and the APU
\* advance by 7 cycles and the PPU by 21.
C28_NmiCharges7 ==
    [][(at = "poll" /\ cpu.bus.nmi_interrupt /\ at' = "fetch") =>
          /\ cpu'.bus.cycles = cpu.bus.cycles + 7
          /\ cpu'.bus.apu.cpu_cycle_counter = cpu.bus.apu.cpu_cycle_counter + 7
          /\ PpuPos(cpu') = (PpuPos(cpu) + 21) % (262 * 341)]_vars

(***************************************************************************)
(* SpecSeq: the frame counter left alone.  A save file is loaded at        *)
(* power-on that has the frame counter at 0 in 4-step or 5-step mode,      *)
(* pulse 1 and the triangle enabled with length counters of 254, not       *)
(* halted, and the linear counter at 127 with its reload flag clear; then  *)
(* instructions of 2 and 7 cycles run and write no register.               *)
(***************************************************************************)
SeqState(mode) ==
    [pulse1 |-> [PulseNew EXCEPT !.enabled = TRUE, !.length_counter = 254],
     pulse2 |-> PulseNew,
     triangle |-> [enabled |-> TRUE, length_counter |-> 254, length_counter_halt |-> FALSE,
                   linear_counter |-> 127, linear_counter_period |-> 127,
                   linear_counter_reload |-> FALSE],
     noise |-> ChannelNew, dmc_enabled |-> FALSE,
     cpu_cycle_counter |-> 0, frame_counter_cycle |-> 0, frame_counter_mode |-> mode,
     interrupt_inhibit |-> FALSE, frame_interrupt |-> FALSE]

InitSeq ==
    /\ \E mode \in {0, 1} :
         cpu = [IdleCpu(RomImage(16384, "HORIZONTAL", 36864, 32768, 40960, 90), 0)
                   EXCEPT !.bus.apu = ApuLoadState(@, SeqState(mode))]
    /\ at = "poll"
    /\ opcode = NoOpcode
    /\ steps = 0
    /\ ret = 0

TickSeq == BusTickUntil({2, 7}, MaxSeqCycles)

NextSeq == Poll \/ TickSeq

SpecSeq == InitSeq /\ [][NextSeq]_vars

\* 1 when the frame counter step of cycle `step` has run in a sequence
\* that stands at cycle p
Passed(p, step) == IF p > step THEN 1 ELSE 0

\* C29: in 4-step mode each sequence of 29781 cycles clocks the quarter
\* frame four times, at cycles 7457, 14913, 22371 and 29781, and the half
\* frame twice, at cycles 14913 and 29781: inside a sequence the linear
\* counter has lost 1 per quarter frame and the length counters 1 per half
\* frame, 4 and 2 for each sequence that is over.
C29_FourStepSequence ==
    LET w == cpu.bus.cycles \div 29781
        p == cpu.bus.cycles % 29781
    IN  (cpu.bus.apu.frame_counter_mode = "Step4" /\ p # 0) =>
           /\ cpu.bus.apu.triangle.linear_counter =
                 127 - (4 * w + Passed(p, 7457) + Passed(p, 14913) + Passed(p, 22371))
           /\ cpu.bus.apu.pulse1.length_counter = 254 - (2 * w + Passed(p, 14913))
           /\ cpu.bus.apu.triangle.length_counter = 254 - (2 * w + Passed(p, 14913))

\* C30: in 5-step mode each sequence of 37282 cycles clocks the quarter
\* frame four times, at cycles 7457, 14913, 22371 and 37281, and the half
\* frame twice, at cycles 14913 and 37281, and nothing at cycle 29781.
C30_FiveStepSequence ==
    LET w == cpu.bus.cycles \div 37282
        p == cpu.bus.cycles % 37282
    IN  cpu.bus.apu.frame_counter_mode = "Step5" =>
           /\ cpu.bus.apu.triangle.linear_counter =
                 127 - (4 * w + Passed(p, 7457) + Passed(p, 14913) + Passed(p, 22371))
           /\ cpu.bus.apu.pulse1.length_counter = 254 - (2 * w + Passed(p, 14913))
           /\ cpu.bus.apu.triangle.length_counter = 254 - (2 * w + Passed(p, 14913))

(***************************************************************************)
(* SpecIrqFlag: the frame interrupt flag.  A save file may be loaded that  *)
(* has the flag clear and the frame counter at 29775 or 29781 in either    *)
(* mode with interrupt_inhibit set or clear (Apu::load_state takes the     *)
(* counter as the file has it); $4017 is written and the Bus ticks.        *)
(***************************************************************************)
IrqFlagStates ==
    { [cpu.bus.apu EXCEPT !.frame_counter_cycle = c,
                          !.frame_counter_mode = m,
                          !.interrupt_inhibit = i,
                          !.frame_interrupt = FALSE] :
        c \in {29775, 29781}, m \in {0, 1}, i \in BOOLEAN }

LoadStateIrqFlag == HostLoadState(IrqFlagStates, MaxOps)

WriteIrqFlag == BusWrite({16407}, {0, 64, 128, 192}, MaxOps)

TickIrqFlag == BusTickStep({1, 7}, MaxOps)

InitIrqFlag == InitAt({0})

NextIrqFlag == Poll \/ LoadStateIrqFlag \/ WriteIrqFlag \/ TickIrqFlag

SpecIrqFlag == InitIrqFlag /\ [][NextIrqFlag]_vars

\* the APU as `self.apu.tick(cycles)` leaves it inside the Bus::tick of
\* this step, before Bus::tick polls the flag
ApuTicked == ApuTick(cpu.bus.apu, opcode'.ins.cycles)

\* C31: an Apu::tick that takes the frame interrupt flag from clear to set
\* runs in 4-step mode with interrupt_inhibit clear and passes the frame
\* counter value 29781; a write of a register never sets the flag; and the
\* flag is clear whenever interrupt_inhibit is set, after Apu::tick and
\* after every step.
C31_FrameInterruptRise ==
    [][/\ (IsOp("tick") /\ ~cpu.bus.apu.frame_interrupt /\ ApuTicked.frame_interrupt) =>
             /\ cpu.bus.apu.frame_counter_mode = "Step4"
             /\ ~cpu.bus.apu.interrupt_inhibit
             /\ cpu.bus.apu.frame_counter_cycle <= 29781
             /\ cpu.bus.apu.frame_counter_cycle + opcode'.ins.cycles > 29781
       /\ IsOp("tick") => (ApuTicked.frame_interrupt => ~ApuTicked.interrupt_inhibit)
       /\ IsOp("write") => (cpu'.bus.apu.frame_interrupt => cpu.bus.apu.frame_interrupt)
       /\ cpu'.bus.apu.frame_interrupt => ~cpu'.bus.apu.interrupt_inhibit]_vars

\* a tick of 7 cycles in 4-step mode has raised the flag, which Bus::tick
\* has latched as an IRQ
C31_Witness ==
    /\ opcode.ins.name = "tick"
    /\ opcode.ins.cycles = 7
    /\ cpu.bus.apu.frame_counter_mode = "Step4"
    /\ ~cpu.bus.apu.interrupt_inhibit
    /\ cpu.bus.apu.frame_counter_cycle = 6
    /\ cpu.bus.irq_interrupt

(***************************************************************************)
(* SpecAddr: the PPU address register.  PPUADDR is written with bytes up   *)
(* to 0xFF, PPUCTRL selects the increment 1 or 32, PPUDATA is read and     *)
(* written and PPUSTATUS is read.                                          *)
(***************************************************************************)
WriteAddrReg == BusWrite({8198}, {0, 63, 127, 224, 255}, MaxAddrOps)

WriteCtrlInc == BusWrite({8192}, {0, 4}, MaxAddrOps)

WriteDataReg == BusWrite({8199}, {65}, MaxAddrOps)

ReadAddrRegs == BusRead({8194, 8199}, MaxAddrOps)

InitAddr == InitAt({0})

NextAddr == Poll \/ WriteAddrReg \/ WriteCtrlInc \/ WriteDataReg \/ ReadAddrRegs

SpecAddr == InitAddr /\ [][NextAddr]_vars

\* C32: the PPU address register holds at most 0x3FFF, so that a PPUDATA
\* access finds its address in one of the ranges up to 0x3FFF.
C32_AddrWithin14Bits == AddrGet(cpu.bus.ppu.addr) <= 16383

\* PPUADDR was written 0xFF, 0xFF (kept as 0x3FFF), and the PPUDATA write
\* that followed, to palette cell 31, has taken the register round to 0
C32_Witness ==
    /\ opcode.ins.name = "write"
    /\ opcode.ins.operand = 8199
    /\ steps = 3
    /\ Rd(cpu.bus.ppu.palette_table, 31) = 65
    /\ AddrGet(cpu.bus.ppu.addr) = 0

(***************************************************************************)
(* SpecSweep: the two pulse channels' sweep units.  The sweep registers,   *)
(* the timer registers and $4015 are written, and a write of 0x80 to $4017 *)
(* clocks a half frame, and with it both sweeps, at once.                  *)
(***************************************************************************)
WriteSweep1 == BusWrite({16385}, {129, 136, 153}, MaxSweepOps)

WriteTimer1 == BusWrite({16386, 16387}, {1, 7, 255}, MaxSweepOps)

WritePulse2 == BusWrite({16389, 16391}, {7, 137}, MaxSweepOps)

WriteStatusFrame == BusWrite({16405, 16407}, {3, 128}, MaxSweepOps)

InitSweep == InitAt({0})

NextSweep == Poll \/ WriteSweep1 \/ WriteTimer1 \/ WritePulse2 \/ WriteStatusFrame

SpecSweep == InitSweep /\ [][NextSweep]_vars

\* the step is a $4017 write that selects 5-step mode: clock_half_frame runs
\* inside it and clocks both sweeps once
SweepsClocked == IsOp("write") /\ opcode'.ins.operand = 16407 /\ Written >= 128

\* what one sweep clock may do to a pulse channel
SweepClockRule(ch, next, channel_num) ==
    /\ TargetPeriod(ch.sweep, ch.timer_period, channel_num) > 2047 =>
           /\ next.sweep_muted
           /\ next.timer_period = ch.timer_period
           /\ \A duty \in 0..1, volume \in 0..15 : PulseOutput(next, duty, volume) = 0
    /\ next.timer_period # ch.timer_period =>
           /\ ch.sweep.divider = 0
           /\ ch.sweep.enabled
           /\ ch.sweep.shift > 0
           /\ ~next.sweep_muted

\* C33: when a sweep is clocked and the target period is above 0x7FF the
\* channel is muted, its output is 0 and its timer period keeps its value;
\* a sweep clock changes the timer period only if the divider is 0, the
\* sweep is enabled, shift > 0 and the channel is not muted.
C33_SweepMutes ==
    [][SweepsClocked =>
          /\ SweepClockRule(cpu.bus.apu.pulse1, cpu'.bus.apu.pulse1, 1)
          /\ SweepClockRule(cpu.bus.apu.pulse2, cpu'.bus.apu.pulse2, 2)]_vars

\* pulse 1, enabled with length loaded, period 0x7FF and an adding sweep of
\* shift 1, was clocked: the target 0xBFE muted it and the period stayed
C33_Witness ==
    /\ opcode.ins.name = "write" /\ opcode.ins.operand = 16407
    /\ cpu.bus.apu.pulse1.enabled /\ cpu.bus.apu.pulse1.length_counter > 0
    /\ cpu.bus.apu.pulse1.sweep.enabled /\ ~cpu.bus.apu.pulse1.sweep.negate
    /\ cpu.bus.apu.pulse1.sweep.shift = 1
    /\ cpu.bus.apu.pulse1.timer_period = 2047
    /\ cpu.bus.apu.pulse1.sweep_muted

\* C40: each pulse channel's timer period is at most 0x7FF, so the sweep's
\* period + change stays below 2^16, and the sweep divider stays in 0..7.
C40_PeriodWithin11Bits ==
    \A ch \in {cpu.bus.apu.pulse1, cpu.bus.apu.pulse2} :
        /\ ch.timer_period \in 0..2047
        /\ ch.timer_period + SweepChange(ch.sweep, ch.timer_period) <= 65535
        /\ ch.sweep.divider \in 0..7

\* pulse 1 with period 0x701 and a negating sweep of shift 0 was clocked:
\* the subtraction 0x701 - 0x701 - 1 went below zero, the channel was muted
\* and the period stayed
C40_Witness ==
    /\ opcode.ins.name = "write" /\ opcode.ins.operand = 16407
    /\ cpu.bus.apu.pulse1.sweep.negate /\ cpu.bus.apu.pulse1.sweep.shift = 0
    /\ cpu.bus.apu.pulse1.timer_period = 1793
    /\ cpu.bus.apu.pulse1.sweep_muted

(***************************************************************************)
(* SpecStatus: the B flags of P.  LDA and PHA put bytes with any bits 4    *)
(* and 5 on the stack, PLP and RTI pull them into P, PHP pushes P, and a   *)
(* write of 0xFF to PPUCTRL just before VBlank brings an NMI.              *)
(***************************************************************************)
ProgramStatus ==
    { Ins("NOP", "Implied", 0),
      Ins("LDA", "Immediate", 16), Ins("LDA", "Immediate", 207),
      Ins("LDA", "Immediate", 255),
      Ins("PHA", "Implied", 0), Ins("PHP", "Implied", 0),
      Ins("PLP", "Implied", 0), Ins("RTI", "Implied", 0),
      Ins("STA", "Absolute", 8192) }

FetchStatus == Fetch(ProgramStatus, MaxStatusInstr)

InitStatus == InitAt({27390})

NextStatus == Poll \/ FetchStatus \/ OpTick

SpecStatus == InitStatus /\ [][NextStatus]_vars

\* bit 4 (B1) clear and bit 5 (B2) set
BreakBitsOfP(status) ==
    ~Contains(status, BREAK_COMMAND) /\ Contains(status, BREAK_COMMAND_2)

\* C34: after reset P has B1 clear and B2 set whatever PLP and RTI pull;
\* the byte PHP pushes has both bits set, the byte NMI servicing pushes has
\* B1 clear and B2 set.
C34_BreakBits ==
    /\ [](BreakBitsOfP(cpu.status))
    /\ [][/\ IsOp("PHP") =>
                 /\ Contains(StackAt(cpu', cpu.stack_pointer), BREAK_COMMAND)
                 /\ Contains(StackAt(cpu', cpu.stack_pointer), BREAK_COMMAND_2)
          /\ (at = "poll" /\ cpu.bus.nmi_interrupt) =>
                 BreakBitsOfP(StackAt(cpu', cpu.stack_pointer + 254))]_vars

\* PLP has pulled the byte 0x10 (B1 set, B2 clear) that PHA had pushed: P
\* is 0x20
C34_Witness ==
    /\ opcode.ins.name = "PLP"
    /\ StackAt(cpu, cpu.stack_pointer) = 16
    /\ cpu.status = 32

(***************************************************************************)
(* SpecIrqRead: SpecIrqFlag with reads of $4015 by the CPU.                *)
(***************************************************************************)
ReadIrqStatus == BusRead({16405}, MaxOps)

NextIrqRead == Poll \/ LoadStateIrqFlag \/ WriteIrqFlag \/ TickIrqFlag \/ ReadIrqStatus

SpecIrqRead == InitIrqFlag /\ [][NextIrqRead]_vars

\* C35: a frame-interrupt flag that the APU has set, in this Bus tick or
\* before, is still set when the tick is over, and a write other than one to
\* $4017 with the inhibit bit leaves it set; a read of $4015 that finds it
\* set returns bit 6 = 1.
C35_FlagStaysSet ==
    [][/\ IsOp("tick") =>
             ((cpu.bus.apu.frame_interrupt \/ ApuTicked.frame_interrupt)
                  => cpu'.bus.apu.frame_interrupt)
       /\ (IsOp("write") /\ cpu.bus.apu.frame_interrupt
               /\ ~(opcode'.ins.operand = 16407 /\ Contains(Written, 64)))
             => cpu'.bus.apu.frame_interrupt
       /\ (IsOp("read") /\ opcode'.ins.operand = 16405 /\ cpu.bus.apu.frame_interrupt)
             => Contains(ret', 64)]_vars

\* C36: in every mirroring mode the index mirror_vram_addr gives for an
\* address in 0x2000..0x3EFF is below 2048, and the renderer's page lies
\* inside the 2 KiB of VRAM.
C36_NametableInBounds ==
    [][/\ IsOp("mirror") => ret' < 2048
       /\ IsOp("page") => (ret' + 1) * 1024 <= 2048]_vars

(***************************************************************************)
(* SpecTrace: CPU::trace.  The host asks for the trace line of the         *)
(* instruction at the program counter before the loop fetches it; the      *)
(* instructions read the registers with read side effects and RAM.         *)
(***************************************************************************)
\* the memory reads trace() makes to show the operand (the instruction bytes
\* themselves come from ins); value is the byte or word shown after `=`,
\* -1 if the addressing mode shows none
Trace(c, ins) ==
    CASE ins.mode = "Absolute" /\ ins.name \notin {"JMP", "JSR"} ->
           LET r == MemRead(c.bus, ins.operand)
           IN  [cpu |-> [c EXCEPT !.bus = r.bus], value |-> r.data]
      [] ins.mode = "Indirect" ->
           LET lo == MemRead(c.bus, ins.operand)
               hi == MemRead(lo.bus, IF ins.operand % 256 = 255
                                     THEN ins.operand - 255
                                     ELSE ins.operand + 1)
           IN  [cpu |-> [c EXCEPT !.bus = hi.bus], value |-> hi.data * 256 + lo.data]
      [] OTHER -> [cpu |-> c, value |-> -1]

\* the host's call of cpu.trace()
TraceStep(prog, bound) ==
    /\ at = "fetch"
    /\ steps < bound
    /\ \E ins \in prog :
         /\ cpu' = Trace(cpu, ins).cpu
         /\ ret' = Trace(cpu, ins).value
         /\ opcode' = [NoOpcode EXCEPT !.ins.name = "trace", !.ins.mode = ins.mode,
                                       !.ins.operand = ins.operand, !.before = Before]
    /\ steps' = steps + 1
    /\ UNCHANGED at

ProgramTrace ==
    { Ins("NOP", "Implied", 0), Ins("LDA", "Immediate", 128),
      Ins("LDA", "Absolute", 16), Ins("LDA", "Absolute", 8194),
      Ins("LDA", "Absolute", 8199), Ins("LDA", "Absolute", 16405),
      Ins("LDA", "Absolute", 16406), Ins("LDA", "Absolute", 16407),
      Ins("STA", "Absolute", 8198) }

TraceProgram == TraceStep(ProgramTrace, MaxInstr)

FetchTrace == Fetch(ProgramTrace, MaxInstr)

InitTrace == InitAt({27390})

NextTrace == Poll \/ TraceProgram \/ FetchTrace \/ OpTick

SpecTrace == InitTrace /\ [][NextTrace]_vars

\* C37: a call of trace() leaves the CPU registers, RAM, the PPU, the APU
\* and the joypads as they were, whatever the traced instruction's operand
\* address.
C37_TraceNoSideEffects == [][IsOp("trace") => cpu' = cpu]_vars

(***************************************************************************)
(* SpecHalt: the length counters with their halt flags.  Some or all       *)
(* channels are enabled at the start; the host writes the length-load      *)
(* registers, the control registers (halt flag set), $4015 and $4017, and  *)
(* ticks the Bus, over a half-frame event when the run starts shortly      *)
(* before cycle 14913.                                                     *)
(***************************************************************************)
InitHalt ==
    /\ \E rom \in Roms, k \in {0, 14910}, enable \in {0, 5, 15} :
          cpu = [IdleCpu(rom, k) EXCEPT !.bus = MemWrite(@, 16405, enable)]
    /\ at = "poll"
    /\ opcode = NoOpcode
    /\ steps = 0
    /\ ret = 0

\* data >> 3 is 1: length 254
WriteLengthLoad == BusWrite({16387, 16391, 16395, 16399}, {8}, MaxOps)

\* bit 5 (pulse, noise) and bit 7 (triangle) set the halt flag
WriteHalt == BusWrite({16384, 16388, 16392, 16396}, {160}, MaxOps)

WriteEnable == BusWrite({16405}, {5, 10}, MaxOps)

WriteFiveStep == BusWrite({16407}, {0, 128}, MaxOps)

TickHalt == BusTickStep({7}, MaxOps)

NextHalt == Poll \/ WriteLengthLoad \/ WriteHalt \/ WriteEnable \/ WriteFiveStep \/ TickHalt

SpecHalt == InitHalt /\ [][NextHalt]_vars

\* the channels that have a length counter, as records of the APU
LengthChannels == {"pulse1", "pulse2", "triangle", "noise"}

\* the length-load register of a channel
LengthLoadReg(ch) ==
    CASE ch = "pulse1" -> 16387 [] ch = "pulse2" -> 16391
      [] ch = "triangle" -> 16395 [] ch = "noise" -> 16399

\* a half-frame event falls into this step: the tick passes a cycle whose
\* arm clocks a half frame, or $4017 is written with bit 7
HalfFrameInStep ==
    \/ /\ IsOp("tick")
       /\ \E i \in 0..(opcode'.ins.cycles - 1) :
             "half" \in FrameStepEvents(cpu.bus.apu.frame_counter_mode,
                                        cpu.bus.apu.frame_counter_cycle + i)
    \/ IsOp("write") /\ opcode'.ins.operand = 16407 /\ Written >= 128

\* C38: a channel whose enable flag is clear has length counter 0; a write
\* to its length-load register while it is disabled loads nothing; a tick or
\* a $4017 write changes a length counter only by taking 1 off it in a
\* half-frame event, with the halt flag clear and the counter above 0.
C38_LengthCounters ==
    /\ [](\A ch \in LengthChannels :
             ~cpu.bus.apu[ch].enabled => cpu.bus.apu[ch].length_counter = 0)
    /\ [][\A ch \in LengthChannels :
            /\ (IsOp("write") /\ opcode'.ins.operand = LengthLoadReg(ch)
                    /\ ~cpu.bus.apu[ch].enabled)
                  => cpu'.bus.apu[ch].length_counter = 0
            /\ ((IsOp("tick") \/ (IsOp("write") /\ opcode'.ins.operand = 16407))
                    /\ cpu'.bus.apu[ch].length_counter # cpu.bus.apu[ch].length_counter)
                  => /\ HalfFrameInStep
                     /\ ~cpu.bus.apu[ch].length_counter_halt
                     /\ cpu.bus.apu[ch].length_counter > 0
                     /\ cpu'.bus.apu[ch].length_counter =
                            cpu.bus.apu[ch].length_counter - 1]_vars

\* $400F was written while noise was disabled and its counter is 0; the
\* triangle's counter, loaded with 254, has been through one half frame
C38_Witness ==
    /\ opcode.ins.name = "write" /\ opcode.ins.operand = 16399
    /\ ~cpu.bus.apu.noise.enabled /\ cpu.bus.apu.noise.length_counter = 0
    /\ cpu.bus.apu.triangle.length_counter = 253

(***************************************************************************)
(* SpecNoise: the noise channel's timer and shift register.  The state is  *)
(* the Noise value alone (cpu.noise); $400E is written with either mode    *)
(* bit and period index 0, and the timer is clocked, in any order and      *)
(* without a bound, so that every value of the shift register that can be  *)
(* reached is reached.                                                     *)
(***************************************************************************)
NOISE_PERIOD_TABLE ==
    << 4, 8, 16, 32, 64, 96, 128, 160, 202, 254, 380, 508, 762, 1016, 2034, 4068 >>

\* Noise::new: the fields of the timer, Default but for shift_register
NoiseNew == [timer_period |-> 0, timer_value |-> 0, mode |-> FALSE, shift_register |-> 1]

\* `let feedback = bit0 ^ bit_cmp;`
NoiseFeedback(n) ==
    LET bit0 == n.shift_register % 2
        bit_cmp == IF n.mode THEN (n.shift_register \div 64) % 2
                             ELSE (n.shift_register \div 2) % 2
    IN  (bit0 + bit_cmp) % 2

\* a shift that inserts the feedback at bit 15
NoiseShiftAt15(shift_register, feedback) ==
    ((shift_register \div 2) + feedback * 32768) % 65536

\* `self.shift_register >>= 1; self.shift_register |= feedback << 14;`
NoiseShift(shift_register, feedback) ==
    LET shifted == shift_register \div 2
    IN  shifted + (IF (shifted \div 16384) % 2 = 1 THEN 0 ELSE feedback * 16384)

\* Noise::clock_timer
NoiseClockTimer(n) ==
    IF n.timer_value > 0
    THEN [n EXCEPT !.timer_value = @ - 1]
    ELSE [n EXCEPT !.timer_value = n.timer_period,
                   !.shift_register = NoiseShift(@, NoiseFeedback(n))]

\* Noise::write_period
NoiseWritePeriod(n, data) ==
    [n EXCEPT !.mode = Contains(data, 128),
              !.timer_period = NOISE_PERIOD_TABLE[(data % 16) + 1]]

InitNoise ==
    /\ cpu = [noise |-> NoiseNew]
    /\ at = "fetch"
    /\ opcode = NoOpcode
    /\ steps = 0
    /\ ret = 0

\* Apu::tick's call of noise.clock_timer()
ClockNoise ==
    /\ cpu' = [cpu EXCEPT !.noise = NoiseClockTimer(@)]
    /\ opcode' = [NoOpcode EXCEPT !.ins.name = "clock_timer"]
    /\ UNCHANGED <<at, steps, ret>>

\* the $400E arm of Apu::mem_write
WriteNoisePeriod ==
    /\ \E data \in {0, 128} :
         /\ cpu' = [cpu EXCEPT !.noise = NoiseWritePeriod(@, data)]
         /\ opcode' = [NoOpcode EXCEPT !.ins.name = "write_period", !.ins.code = data]
    /\ UNCHANGED <<at, steps, ret>>

NextNoise == ClockNoise \/ WriteNoisePeriod

SpecNoise == InitNoise /\ [][NextNoise]_vars

\* C39: the noise shift register is never 0 and fits in 15 bits.
C39_ShiftRegisterRange == cpu.noise.shift_register \in 1..32767

\* a timer clock in mode 1 has brought the shift register to all ones
C39_Witness ==
    /\ opcode.ins.name = "clock_timer"
    /\ cpu.noise.mode
    /\ cpu.noise.shift_register = 32767

====
